---- MODULE Spec2Model ----
(***************************************************************************)
(* Model of vibe-git (src/vibe-git.py): the repository inspector           *)
(* (check_repo), the eligibility predicates of RepoStatus, the mutating    *)
(* procedure delete_local_folder and the batch executor execute_action.    *)
(*                                                                         *)
(* Python strings are modelled as sequences of one-character strings, so   *)
(* that the substring tests of the source ("Behind" in sync_status,        *)
(* branch in remote_check) and its formatting (f"Ahead (+{ahead})") are     *)
(* computed rather than assumed.                                           *)
(***************************************************************************)
EXTENDS Integers, Sequences, FiniteSets, TLC

\* ------------------------------------------------------------------ bounds
\* largest true ahead / behind / behind-trunk commit count of a directory
MaxCount == 1
\* most remote heads a directory's origin has
MaxHeads == 2
\* most gateway calls that fail or time out during one inspection
MaxFailures == 1
\* confirmed batches a session is followed through
MaxBatches == 1
\* largest worker bound scan_repos is called with
MaxWorkers == 2
\* speckit worktrees created one after the other
MaxCreations == 3

\* ------------------------------------------------------- string primitives
\* Python: sub in s
Contains(sub, s) ==
    \E i \in 0..(Len(s) - Len(sub)) : SubSeq(s, i + 1, i + Len(sub)) = sub

\* Python: s.startswith(pre)
StartsWith(s, pre) ==
    Len(s) >= Len(pre) /\ SubSeq(s, 1, Len(pre)) = pre

\* Python: s.endswith(suf)
EndsWith(s, suf) ==
    Len(s) >= Len(suf) /\ SubSeq(s, Len(s) - Len(suf) + 1, Len(s)) = suf

Digits == <<"0", "1", "2", "3", "4", "5", "6", "7", "8", "9">>

DigitVal(c) == (CHOOSE i \in 1..10 : Digits[i] = c) - 1

\* Python: str(n) / f"{n}" for a non-negative int
RECURSIVE Str(_)
Str(n) == IF n < 10 THEN <<Digits[n + 1]>>
          ELSE Str(n \div 10) \o <<Digits[(n % 10) + 1]>>

\* Python: s.isdigit()
IsDigit(s) == Len(s) > 0 /\ \A i \in 1..Len(s) : \E d \in 1..10 : Digits[d] = s[i]

\* Python: int(s) for a string of digits
RECURSIVE ParseInt(_)
ParseInt(s) == IF Len(s) = 0 THEN 0
               ELSE 10 * ParseInt(SubSeq(s, 1, Len(s) - 1)) + DigitVal(s[Len(s)])

\* ------------------------------------------------------- string literals
sEmpty    == << >>
sDash     == <<"-">>
sQuestion == <<"?">>
sMain     == <<"m", "a", "i", "n">>
sDev      == <<"d", "e", "v">>
sMaster   == <<"m", "a", "s", "t", "e", "r">>
sHEAD     == <<"H", "E", "A", "D">>
sDETACHED == <<"D", "E", "T", "A", "C", "H", "E", "D">>
sFeat     == <<"f", "e", "a", "t">>
sFeature  == <<"f", "e", "a", "t", "u", "r", "e">>
sXFeat    == <<"x", "/", "f", "e", "a", "t">>
sMonorepo == <<"m", "o", "n", "o", "r", "e", "p", "o">>
sApp      == <<"a", "p", "p">>
sAppFeat  == <<"a", "p", "p", "-", "f", "e", "a", "t">>
sAPP      == <<"A", "p", "p">>
sSynced   == <<"S", "y", "n", "c", "e", "d">>
sAhead    == <<"A", "h", "e", "a", "d">>
sBehind   == <<"B", "e", "h", "i", "n", "d">>
sDiverged == <<"D", "i", "v", "e", "r", "g", "e", "d">>
sRebased  == <<"R", "e", "b", "a", "s", "e", "d">>
sNoSp     == <<"N", "o", " ">>
sWorktree == <<"W", "o", "r", "k", "t", "r", "e", "e">>
sRepo     == <<"R", "e", "p", "o">>
sRefsHeads == <<"r", "e", "f", "s", "/", "h", "e", "a", "d", "s", "/">>
sGitdir   == <<"g", "i", "t", "d", "i", "r", ":">>
sNoPR     == <<"N", "o", " ", "P", "R">>
sTab      == <<"\t">>
sNewline  == <<"\n">>
sUntrackedLine == <<"?", "?", " ", "f">>
sModifiedLine  == <<" ", "M", " ", "f">>
sStagedLine    == <<"M", " ", " ", "f">>

\* f"Ahead (+{ahead})"
FmtAhead(a) == sAhead \o <<" ", "(", "+">> \o Str(a) \o <<")">>
\* f"Behind (-{behind})"
FmtBehind(b) == sBehind \o <<" ", "(", "-">> \o Str(b) \o <<")">>
\* f"Diverged (+{ahead}/-{behind})"
FmtDiverged(a, b) ==
    sDiverged \o <<" ", "(", "+">> \o Str(a) \o <<"/", "-">> \o Str(b) \o <<")">>
\* f"Behind {main_branch} (-{behind_main})"
FmtBehindTrunk(mb, n) == sBehind \o <<" ">> \o mb \o <<" ", "(", "-">> \o Str(n) \o <<")">>
\* f"No {main_branch}"
FmtNoTrunk(mb) == sNoSp \o mb

\* ------------------------------------------------- RepoStatus eligibility
\* A reason is a sequence of text chunks; Python's None is the empty one.
None == << >>

\* why_not_pull without its has_changes test
why_not_pull_ignores_changes(r) ==
    IF ~r.remote_exists THEN <<"no remote branch">>
    ELSE IF ~Contains(sBehind, r.sync_status) THEN <<"already synced">>
    ELSE IF Contains(sDiverged, r.sync_status) THEN <<"diverged (use force push)">>
    ELSE None

why_not_pull(r) ==
    IF ~r.remote_exists THEN <<"no remote branch">>
    ELSE IF ~Contains(sBehind, r.sync_status) THEN <<"already synced">>
    ELSE IF Contains(sDiverged, r.sync_status) THEN <<"diverged (use force push)">>
    ELSE IF r.has_changes THEN <<"has uncommitted changes">>
    ELSE None

can_pull(r) == why_not_pull(r) = None

\* why_not_rebase with is_behind_main not looking at sync_status
why_not_rebase_any_sync(r) ==
    LET is_on_main == r.branch \in {r.main_branch, sMain, sDev, sMaster}
        is_behind_remote == Contains(sBehind, r.sync_status)
                            /\ ~Contains(sDiverged, r.sync_status)
        is_behind_main == Contains(sBehind, r.rebase_status)
    IN  IF is_on_main THEN <<"on main branch">>
        ELSE IF r.has_changes THEN <<"has uncommitted changes">>
        ELSE IF ~(is_behind_remote \/ is_behind_main) THEN <<"already rebased">>
        ELSE None

why_not_rebase(r) ==
    LET is_on_main == r.branch \in {r.main_branch, sMain, sDev, sMaster}
        is_behind_remote == Contains(sBehind, r.sync_status)
                            /\ ~Contains(sDiverged, r.sync_status)
        is_behind_main == r.sync_status \in {sSynced, sDash}
                          /\ Contains(sBehind, r.rebase_status)
    IN  IF is_on_main THEN <<"on main branch">>
        ELSE IF r.has_changes THEN <<"has uncommitted changes">>
        ELSE IF ~(is_behind_remote \/ is_behind_main) THEN <<"already rebased">>
        ELSE None

can_rebase(r) == why_not_rebase(r) = None

why_not_force_push_main_unprotected(r) ==
    IF ~r.remote_exists THEN <<"no remote branch">>
    ELSE IF r.branch \in {sMaster, sDev} THEN <<"protected branch">>
    ELSE IF ~Contains(sAhead, r.sync_status) /\ ~Contains(sDiverged, r.sync_status)
         THEN <<"nothing to push">>
    ELSE None

why_not_force_push(r) ==
    IF ~r.remote_exists THEN <<"no remote branch">>
    ELSE IF r.branch \in {sMain, sMaster, sDev} THEN <<"protected branch">>
    ELSE IF ~Contains(sAhead, r.sync_status) /\ ~Contains(sDiverged, r.sync_status)
         THEN <<"nothing to push">>
    ELSE None

can_force_push(r) == why_not_force_push(r) = None

why_not_create_remote(r) ==
    IF r.remote_exists THEN <<"remote already exists">>
    ELSE IF r.branch \in {sHEAD, sDETACHED} THEN <<"detached HEAD">>
    ELSE None

can_create_remote(r) == why_not_create_remote(r) = None

\* why_not_stash without its has_changes test
why_not_stash_never(r) == None

why_not_stash(r) == IF ~r.has_changes THEN <<"no changes to stash">> ELSE None

can_stash(r) == why_not_stash(r) = None

why_not_discard(r) == IF ~r.has_changes THEN <<"no changes to discard">> ELSE None

can_discard(r) == why_not_discard(r) = None

why_not_reset_to_remote(r) ==
    IF ~r.remote_exists THEN <<"no remote branch to reset to">> ELSE None

can_reset_to_remote(r) == why_not_reset_to_remote(r) = None

\* why_not_delete_local without its has_changes test
why_not_delete_local_ignores_changes(r) ==
    IF ~r.remote_exists THEN <<"no remote branch (data would be lost)">>
    ELSE IF r.sync_status # sSynced
         THEN <<"not synced with remote (">> \o r.sync_status \o <<")">>
    ELSE None

why_not_delete_local(r) ==
    IF ~r.remote_exists THEN <<"no remote branch (data would be lost)">>
    ELSE IF r.has_changes THEN <<"has uncommitted changes">>
    ELSE IF r.sync_status # sSynced
         THEN <<"not synced with remote (">> \o r.sync_status \o <<")">>
    ELSE None

can_delete_local(r) == why_not_delete_local(r) = None

\* why_not_create_worktree looking at the branch only
why_not_create_worktree_any_kind(r) ==
    IF r.branch \in {sHEAD, sDETACHED} THEN <<"detached HEAD">>
    ELSE None

why_not_create_worktree(r) ==
    IF r.type_label = sWorktree THEN <<"already a worktree">>
    ELSE IF r.branch \in {sHEAD, sDETACHED} THEN <<"detached HEAD">>
    ELSE None

can_create_worktree(r) == why_not_create_worktree(r) = None

\* ------------------------------------------------------------ the world
\* What is on disk and on the remote for one child directory of scan_dir.
\*   gitFile      .git is a pointer file (a worktree) rather than a directory
\*   pointer      "ok": the pointer file starts with "gitdir:";
\*                "bad": it does not; "unreadable": read_text raises (git
\*                itself still reads it, e.g. bytes the locale cannot decode)
\*   owner        name of the directory three levels above the gitdir target
\*   ownerExists  that directory exists
\*   registered   the owner's metadata lists this worktree
\*   head         stdout of rev-parse --abbrev-ref HEAD
\*   heads        branch names under refs/heads of origin
\*   ahead/behind commits only on HEAD / only on origin/<head>
\*   behindTrunk  commits on origin/<trunk> that HEAD lacks
\*   tree         lines of git status --porcelain
\*   rebasing     a rebase is in progress (HEAD is detached meanwhile)
DirNames == {sApp, sMonorepo, sAppFeat}
HeadNames == {sFeat, sFeature, sXFeat, sMain, sDev}
BranchOutputs == {sMain, sDev, sMaster, sFeat, sHEAD, sEmpty}
Trees == {"clean", "untracked", "modified", "staged"}

\* git lists the advertised refs in name order
HeadOrder == <<sDev, sFeat, sFeature, sMain, sXFeat>>

\* Path.name of the directory
NameOf(w) == w.name

\* stdout of git rev-parse --abbrev-ref HEAD
BranchOut(w) == IF w.rebasing THEN sHEAD ELSE w.head

\* ------------------------------------------------------------ the gateway
\* The run_git / gh calls of one inspection; ok[c] says call c succeeded
\* (exit status 0 within its timeout).  get_pr_status looks for the gh
\* program with subprocess.run(["which", "gh"]): ok["spawnWhich"] says the
\* which process could be started, ok["which"] that it returned 0.
Calls == {"branch", "lsremote", "revHead", "revRemote", "ahead", "behind",
          "revTrunk1", "revTrunk2", "mergeBase", "behindTrunk", "spawnWhich",
          "which", "gh", "status"}

Outcomes == {ok \in [Calls -> BOOLEAN] :
                Cardinality({c \in Calls : ~ok[c]}) <= MaxFailures}

\* git ls-remote --heads origin <pattern>: a ref is listed when the pattern
\* matches a trailing run of its path components
RefMatches(h, pattern) == EndsWith(<<"/">> \o sRefsHeads \o h, <<"/">> \o pattern)

ShaOf(h) == <<"c", "0", "d", "e">> \o Str(Len(h))

RECURSIVE LsRemoteLines(_, _, _)
LsRemoteLines(heads, pattern, i) ==
    IF i > Len(HeadOrder) THEN sEmpty
    ELSE LET h == HeadOrder[i]
             rest == LsRemoteLines(heads, pattern, i + 1)
         IN  IF h \in heads /\ RefMatches(h, pattern)
             THEN ShaOf(h) \o sTab \o sRefsHeads \o h
                  \o (IF rest = sEmpty THEN sEmpty ELSE sNewline \o rest)
             ELSE rest

\* stdout of git ls-remote --heads origin <branch>, stripped
LsRemoteOut(w, branch) == LsRemoteLines(w.heads, branch, 1)

\* the remote-tracking ref origin/<b> resolves
HasRemoteRef(w, b) == b \in w.heads

\* stdout of git status --porcelain
StatusOut(w) ==
    CASE w.tree = "clean"     -> sEmpty
      [] w.tree = "untracked" -> sUntrackedLine
      [] w.tree = "modified"  -> sModifiedLine
      [] w.tree = "staged"    -> sStagedLine

\* Python: s.strip(), as run_git applies it to stdout
RECURSIVE Strip(_)
Strip(s) ==
    LET ws == {" ", "\t", "\n"}
    IN  IF Len(s) = 0 THEN s
        ELSE IF s[1] \in ws THEN Strip(Tail(s))
        ELSE IF s[Len(s)] \in ws THEN Strip(SubSeq(s, 1, Len(s) - 1))
        ELSE s

\* Python: s.splitlines()
RECURSIVE SplitLines(_)
SplitLines(s) ==
    IF Len(s) = 0 THEN << >>
    ELSE IF \E i \in 1..Len(s) : s[i] = "\n"
         THEN LET i == CHOOSE j \in 1..Len(s) :
                            s[j] = "\n" /\ \A k \in 1..(j - 1) : s[k] # "\n"
              IN  <<SubSeq(s, 1, i - 1)>> \o SplitLines(SubSeq(s, i + 1, Len(s)))
         ELSE <<s>>

\* ---------------------------------------------------------- the inspector
\* get_main_branch naming the monorepo trunk "develop"
get_main_branch_develop(w, is_worktree) ==
    IF Contains(sMonorepo, NameOf(w)) THEN <<"d", "e", "v", "e", "l", "o", "p">>
    ELSE IF is_worktree /\ w.gitFile /\ w.pointer = "ok"
            /\ Contains(sMonorepo, w.owner)
         THEN <<"d", "e", "v", "e", "l", "o", "p">>
    ELSE sMain

get_main_branch(w, is_worktree) ==
    IF Contains(sMonorepo, NameOf(w)) THEN sDev
    ELSE IF is_worktree /\ w.gitFile /\ w.pointer = "ok"
            /\ Contains(sMonorepo, w.owner) THEN sDev
    ELSE sMain

\* has_uncommitted_changes taking a failed status query for a clean tree
has_uncommitted_changes_trusts_failure(w, ok) ==
    IF ~ok["status"] THEN FALSE
    ELSE LET lines == SplitLines(Strip(StatusOut(w)))
         IN  \E i \in 1..Len(lines) :
                /\ lines[i] # sEmpty
                /\ ~StartsWith(lines[i], <<"?", "?">>)
                /\ ~StartsWith(lines[i], <<"!", "!">>)

has_uncommitted_changes(w, ok) ==
    IF ~ok["status"] THEN TRUE
    ELSE LET lines == SplitLines(Strip(StatusOut(w)))
         IN  \E i \in 1..Len(lines) :
                /\ lines[i] # sEmpty
                /\ ~StartsWith(lines[i], <<"?", "?">>)
                /\ ~StartsWith(lines[i], <<"!", "!">>)

get_pr_status(w, branch, ok) ==
    IF branch \in {sMain, sDev, sMaster, sDETACHED, sHEAD} THEN sDash
    ELSE IF ~ok["which"] THEN sQuestion
    ELSE IF ~ok["gh"] THEN sQuestion
    ELSE sNoPR

\* the subprocess.run(["which", "gh"]) of get_pr_status stands before the
\* try: the OSError of a which that cannot be started leaves the function
get_pr_status_raises(branch, ok) ==
    /\ branch \notin {sMain, sDev, sMaster, sDETACHED, sHEAD}
    /\ ~ok["spawnWhich"]

\* check_repo's result when the current-branch query fails
NoStatus == [name |-> sEmpty]

\* check_repo left by an exception instead of a return
Raised == [name |-> sEmpty, raised |-> TRUE]

\* remote_exists = branch in remote_check if ok else False
remote_exists_of(okLs, branch, remote_check) ==
    IF okLs THEN Contains(branch, remote_check) ELSE FALSE

\* int(out) if ok and out.isdigit() else 0
parse_count(okCall, out) ==
    IF okCall /\ IsDigit(out) THEN ParseInt(out) ELSE 0

\* classify_counts without its final else: the initial "-" survives
classify_counts_leaves_dash(ahead, behind) ==
    IF ahead > 0 /\ behind > 0 THEN FmtDiverged(ahead, behind)
    ELSE IF ahead > 0 THEN FmtAhead(ahead)
    ELSE IF behind > 0 THEN FmtBehind(behind)
    ELSE sDash

\* the if / elif chain over the two counts
classify_counts(ahead, behind) ==
    IF ahead > 0 /\ behind > 0 THEN FmtDiverged(ahead, behind)
    ELSE IF ahead > 0 THEN FmtAhead(ahead)
    ELSE IF behind > 0 THEN FmtBehind(behind)
    ELSE sSynced

\* is_on_main_branch with "master" missing from the tuple
is_on_main_branch_no_master(branch, main_branch) ==
    branch \in {main_branch, sMain, sDev}

\* is_on_main_branch = branch in (main_branch, "main", "dev", "master")
is_on_main_branch(branch, main_branch) ==
    branch \in {main_branch, sMain, sDev, sMaster}

sync_status_of(w, branch, remote_exists, ok) ==
    LET hasRef == HasRemoteRef(w, branch)
        okLocal == ok["revHead"]
        okRemote == ok["revRemote"] /\ hasRef
        \* HEAD and origin/<branch> name one commit
        tipsEqual == w.ahead = 0 /\ w.behind = 0
        ahead == parse_count(ok["ahead"] /\ hasRef, Str(w.ahead))
        behind == parse_count(ok["behind"] /\ hasRef, Str(w.behind))
    IN  IF ~remote_exists THEN sDash
        ELSE IF okLocal /\ okRemote /\ tipsEqual THEN sSynced
        ELSE classify_counts(ahead, behind)

rebase_status_of(w, branch, main_branch, ok) ==
    LET hasTrunk == HasRemoteRef(w, main_branch)
        \* merge-base HEAD origin/<trunk> is origin/<trunk>'s tip
        baseIsTip == w.behindTrunk = 0
        behind_main == parse_count(ok["behindTrunk"], Str(w.behindTrunk))
    IN  IF is_on_main_branch(branch, main_branch) THEN sDash
        ELSE IF ok["revTrunk1"] /\ hasTrunk
             THEN IF ok["revTrunk2"] /\ ok["mergeBase"] /\ baseIsTip THEN sRebased
                  ELSE FmtBehindTrunk(main_branch, behind_main)
        ELSE FmtNoTrunk(main_branch)

check_repo(w, is_worktree, ok) ==
    LET type_label == IF is_worktree THEN sWorktree ELSE sRepo
        main_branch == get_main_branch(w, is_worktree)
        branch == IF Strip(BranchOut(w)) = sEmpty THEN sDETACHED
                  ELSE Strip(BranchOut(w))
        remote_check == LsRemoteOut(w, branch)
        remote_exists == remote_exists_of(ok["lsremote"], branch, remote_check)
    IN  IF ~ok["branch"] THEN NoStatus
        ELSE IF get_pr_status_raises(branch, ok) THEN Raised
        ELSE [name |-> NameOf(w),
              path |-> NameOf(w),
              type_label |-> type_label,
              branch |-> branch,
              remote_exists |-> remote_exists,
              sync_status |-> sync_status_of(w, branch, remote_exists, ok),
              rebase_status |-> rebase_status_of(w, branch, main_branch, ok),
              pr_status |-> get_pr_status(w, branch, ok),
              main_branch |-> main_branch,
              has_changes |-> has_uncommitted_changes(w, ok)]

\* ------------------------------------------------------------- _sort_repos
\* characters in code-point order, for Python's string comparison
Alphabet == <<"-", "/", "A", "a", "d", "e", "f", "m", "n", "o", "p", "r", "t", "x">>

CharCode(c) == CHOOSE i \in 1..Len(Alphabet) : Alphabet[i] = c

\* Python: a < b on strings
RECURSIVE StrLess(_, _)
StrLess(a, b) ==
    IF Len(b) = 0 THEN FALSE
    ELSE IF Len(a) = 0 THEN TRUE
    ELSE IF a[1] = b[1] THEN StrLess(Tail(a), Tail(b))
    ELSE CharCode(a[1]) < CharCode(b[1])

UpperCase == <<"A", "B", "C", "D", "E", "F", "G", "H", "I", "J", "K", "L", "M",
               "N", "O", "P", "Q", "R", "S", "T", "U", "V", "W", "X", "Y", "Z">>
LowerCase == <<"a", "b", "c", "d", "e", "f", "g", "h", "i", "j", "k", "l", "m",
               "n", "o", "p", "q", "r", "s", "t", "u", "v", "w", "x", "y", "z">>

\* Python: c.lower() for an ASCII character
LowerChar(c) ==
    IF \E i \in 1..26 : UpperCase[i] = c
    THEN LowerCase[CHOOSE i \in 1..26 : UpperCase[i] = c]
    ELSE c

\* Python: s.lower()
Lower(s) == [i \in 1..Len(s) |-> LowerChar(s[i])]

sort_key(r) ==
    LET rebase_priority == IF Contains(sBehind, r.rebase_status) THEN 0
                           ELSE IF Contains(sNoSp, r.rebase_status) THEN 1
                           ELSE 2
        sync_priority == IF Contains(sDiverged, r.sync_status) THEN 0
                         ELSE IF Contains(sBehind, r.sync_status) THEN 1
                         ELSE IF Contains(sAhead, r.sync_status) THEN 2
                         ELSE 3
    IN  <<rebase_priority, sync_priority, Lower(r.name)>>

\* Python: k1 < k2 on the key tuples
KeyLess(k1, k2) ==
    \/ k1[1] < k2[1]
    \/ k1[1] = k2[1] /\ k1[2] < k2[2]
    \/ k1[1] = k2[1] /\ k1[2] = k2[2] /\ StrLess(k1[3], k2[3])

\* insert r after every element whose key is not greater (sorted is stable)
RECURSIVE InsertSorted(_, _)
InsertSorted(r, sorted) ==
    IF Len(sorted) = 0 THEN <<r>>
    ELSE IF KeyLess(sort_key(r), sort_key(sorted[1])) THEN <<r>> \o sorted
    ELSE <<sorted[1]>> \o InsertSorted(r, Tail(sorted))

RECURSIVE _sort_repos(_)
_sort_repos(rs) ==
    IF Len(rs) = 0 THEN << >>
    ELSE InsertSorted(rs[Len(rs)], _sort_repos(SubSeq(rs, 1, Len(rs) - 1)))

\* -------------------------------------------------------------- scan_repos
\* every order in which the inspections of the directories in S can complete
RECURSIVE Orders(_)
Orders(S) ==
    IF S = {} THEN {<< >>}
    ELSE UNION {{<<d>> \o o : o \in Orders(S \ {d})} : d \in S}

\* the list scan_repos returns when the inspections complete in the given
\* order and the gateway calls of directory d have the outcomes oks[d]
RECURSIVE scan_repos(_, _, _)
scan_repos(disk, order, oks) ==
    IF Len(order) = 0 THEN << >>
    ELSE LET w == disk[order[1]]
             status == check_repo(w, w.gitFile, oks[order[1]])
             rest == scan_repos(disk, Tail(order), oks)
         IN  IF status = NoStatus THEN rest ELSE <<status>> \o rest

\* future.result() re-raises what check_repo raised: scan_repos is left by
\* the exception of the first such future and returns no list
scan_repos_raises(disk, oks) ==
    \E d \in DOMAIN disk : check_repo(disk[d], disk[d].gitFile, oks[d]) = Raised

\* ----------------------------------------------------- delete_local_folder
\* out: the outcomes of the calls the procedure makes
\*   gitDir  rev-parse --git-dir succeeds with a non-empty answer
\*   remove  git worktree remove --force succeeds
\*   rmtree  shutil.rmtree succeeds
DeleteOutcomes == [gitDir : BOOLEAN, remove : BOOLEAN, rmtree : BOOLEAN]

\* one command issued in repo.path: the git verb and options, and the
\* branch or ref it names
GitCmd(repo, cmd, arg, ok) ==
    [dir |-> repo.path, kind |-> repo.type_label, cmd |-> cmd, arg |-> arg,
     ok |-> ok]

Cmd(repo, cmd, ok) == GitCmd(repo, cmd, sEmpty, ok)

\* the fallback / plain-repository branch: shutil.rmtree(repo.path)
RmTree(repo, disk, out, prefix, okMsg) ==
    LET present == repo.path \in DOMAIN disk
        ok == present /\ out.rmtree
    IN  [ok |-> ok,
         msg |-> IF ok THEN okMsg ELSE "Delete failed",
         raised |-> FALSE,
         disk |-> IF ok THEN [d \in DOMAIN disk \ {repo.path} |-> disk[d]] ELSE disk,
         cmds |-> prefix \o <<Cmd(repo, "rmtree", ok)>>]

delete_local_folder(repo, disk, out) ==
    LET present == repo.path \in DOMAIN disk
        w == disk[repo.path]
        okGitDir == present /\ out.gitDir
        c1 == <<Cmd(repo, "rev-parse --git-dir", okGitDir)>>
    IN  IF repo.type_label = sWorktree
        THEN IF okGitDir /\ w.gitFile
             THEN IF w.pointer = "unreadable"
                  THEN \* read_text raises; nothing catches it here
                       [ok |-> FALSE, msg |-> "exception", raised |-> TRUE,
                        disk |-> disk, cmds |-> c1]
                  ELSE IF w.pointer = "ok" /\ w.ownerExists
                  THEN [ok |-> out.remove,
                        msg |-> IF out.remove THEN "Worktree removed"
                                ELSE "Worktree remove failed",
                        raised |-> FALSE,
                        disk |-> IF out.remove
                                 THEN [d \in DOMAIN disk \ {repo.path} |-> disk[d]]
                                 ELSE disk,
                        cmds |-> c1 \o <<Cmd(repo, "worktree remove", out.remove)>>]
                  ELSE RmTree(repo, disk, out, c1, "Worktree folder deleted")
             ELSE RmTree(repo, disk, out, c1, "Worktree folder deleted")
        ELSE RmTree(repo, disk, out, << >>, "Repo deleted")

\* ------------------------------------------------- the mutating procedures
\* Each takes the RepoStatus record of the last scan, the directories as they
\* are now and the outcome the gateway gives each command it may issue, and
\* returns the (ok, message) pair, the directories afterwards and the
\* commands issued in order.  A command in a directory that is gone fails.

SetWorld(disk, d, w) == [disk EXCEPT ![d] = w]

\* what git leaves behind when the tracked files are clean
CleanTracked(w) == w.tree \in {"clean", "untracked"}

Done(ok, msg, disk, cmds) ==
    [ok |-> ok, msg |-> msg, raised |-> FALSE, disk |-> disk, cmds |-> cmds]

\* outcomes of fetch, of the pull or rebase step, whether a failed step
\* leaves its rebase in progress, and of rebase --abort
RebaseOutcomes == [fetch : BOOLEAN, step : BOOLEAN, stuck : BOOLEAN,
                   abort : BOOLEAN]

TryRebase_no_abort(repo, disk, out, cmd, arg, canRun, after, okMsg, failMsg, prefix) ==
    LET present == repo.path \in DOMAIN disk
        w == disk[repo.path]
        ok == present /\ out.step /\ canRun
        stuck == present /\ (w.rebasing \/ (canRun /\ out.stuck))
    IN  IF ok
        THEN Done(TRUE, okMsg, SetWorld(disk, repo.path, after),
                  prefix \o <<GitCmd(repo, cmd, arg, TRUE)>>)
        ELSE Done(FALSE, failMsg,
                  IF present
                  THEN SetWorld(disk, repo.path, [w EXCEPT !.rebasing = stuck])
                  ELSE disk,
                  prefix \o <<GitCmd(repo, cmd, arg, FALSE)>>)

\* ok, output = run_git(<pull --rebase | rebase>); on failure
\* run_git(["rebase", "--abort"]) and return False.  The step needs its
\* ref and clean tracked files; when it fails after it began, git may
\* leave the rebase in progress, and rebase --abort succeeds only when
\* there is one.
TryRebase(repo, disk, out, cmd, arg, canRun, after, okMsg, failMsg, prefix) ==
    LET present == repo.path \in DOMAIN disk
        w == disk[repo.path]
        ok == present /\ out.step /\ canRun
        stuck == present /\ (w.rebasing \/ (canRun /\ out.stuck))
        okAbort == stuck /\ out.abort
    IN  IF ok
        THEN Done(TRUE, okMsg, SetWorld(disk, repo.path, after),
                  prefix \o <<GitCmd(repo, cmd, arg, TRUE)>>)
        ELSE Done(FALSE, failMsg,
                  IF present
                  THEN SetWorld(disk, repo.path,
                                [w EXCEPT !.rebasing = stuck /\ ~okAbort])
                  ELSE disk,
                  prefix \o <<GitCmd(repo, cmd, arg, FALSE),
                              GitCmd(repo, "rebase --abort", sEmpty, okAbort)>>)

\* run_git(["fetch", "origin"]): the result is what the caller makes of it
Fetch(repo, disk, out) ==
    GitCmd(repo, "fetch origin", sEmpty, repo.path \in DOMAIN disk /\ out.fetch)

\* git pull --rebase origin <branch>: the local commits replayed on the
\* remote head
CanPull(repo, disk) ==
    /\ repo.path \in DOMAIN disk
    /\ HasRemoteRef(disk[repo.path], repo.branch)
    /\ CleanTracked(disk[repo.path])
    /\ ~disk[repo.path].rebasing

AfterPull(repo, disk) ==
    IF repo.path \in DOMAIN disk THEN [disk[repo.path] EXCEPT !.behind = 0]
    ELSE NoStatus

pull_rebase(repo, disk, out) ==
    TryRebase(repo, disk, out, "pull --rebase origin", repo.branch,
              CanPull(repo, disk), AfterPull(repo, disk),
              "Pulled successfully", "Pull failed",
              <<Fetch(repo, disk, out)>>)

rebase_on_main_by_rebase_status(repo, disk, out) ==
    LET present == repo.path \in DOMAIN disk
        w == disk[repo.path]
    IN  IF Contains(sBehind, repo.rebase_status)
        THEN TryRebase(repo, disk, out, "pull --rebase origin", repo.branch,
                       CanPull(repo, disk), AfterPull(repo, disk),
                       "Pulled from origin", "Pull failed",
                       <<Fetch(repo, disk, out)>>)
        ELSE TryRebase(repo, disk, out, "rebase", <<"origin/">> \o repo.main_branch,
                       /\ present
                       /\ HasRemoteRef(w, repo.main_branch)
                       /\ CleanTracked(w)
                       /\ ~w.rebasing,
                       IF present THEN [w EXCEPT !.behindTrunk = 0] ELSE NoStatus,
                       "Rebased on origin", "Rebase failed",
                       <<Fetch(repo, disk, out)>>)

rebase_on_main(repo, disk, out) ==
    LET present == repo.path \in DOMAIN disk
        w == disk[repo.path]
    IN  IF Contains(sBehind, repo.sync_status)
           /\ ~Contains(sDiverged, repo.sync_status)
        THEN TryRebase(repo, disk, out, "pull --rebase origin", repo.branch,
                       CanPull(repo, disk), AfterPull(repo, disk),
                       "Pulled from origin", "Pull failed",
                       <<Fetch(repo, disk, out)>>)
        ELSE TryRebase(repo, disk, out, "rebase", <<"origin/">> \o repo.main_branch,
                       /\ present
                       /\ HasRemoteRef(w, repo.main_branch)
                       /\ CleanTracked(w)
                       /\ ~w.rebasing,
                       IF present THEN [w EXCEPT !.behindTrunk = 0] ELSE NoStatus,
                       "Rebased on origin", "Rebase failed",
                       <<Fetch(repo, disk, out)>>)

PushOutcomes == [push : BOOLEAN]

\* after a push that succeeded origin has the branch at the local commit
AfterPush(w, b) ==
    [w EXCEPT !.heads = @ \cup {b}, !.ahead = 0, !.behind = 0]

force_push_plain_force(repo, disk, out) ==
    LET present == repo.path \in DOMAIN disk
        w == disk[repo.path]
        ok == present /\ out.push /\ w.head = repo.branch
    IN  Done(ok, IF ok THEN "Force pushed successfully" ELSE "Push failed",
             IF ok THEN SetWorld(disk, repo.path, AfterPush(w, repo.branch))
             ELSE disk,
             <<GitCmd(repo, "push --force origin", repo.branch, ok)>>)

force_push(repo, disk, out) ==
    LET present == repo.path \in DOMAIN disk
        w == disk[repo.path]
        ok == present /\ out.push /\ w.head = repo.branch
    IN  Done(ok, IF ok THEN "Force pushed successfully" ELSE "Push failed",
             IF ok THEN SetWorld(disk, repo.path, AfterPush(w, repo.branch))
             ELSE disk,
             <<GitCmd(repo, "push --force-with-lease origin", repo.branch, ok)>>)

\* a push without force is rejected when origin has commits the branch lacks
create_remote(repo, disk, out) ==
    LET present == repo.path \in DOMAIN disk
        w == disk[repo.path]
        ok == /\ present /\ out.push /\ w.head = repo.branch
              /\ (HasRemoteRef(w, repo.branch) => w.behind = 0)
    IN  Done(ok, IF ok THEN "Remote branch created" ELSE "Push failed",
             IF ok THEN SetWorld(disk, repo.path, AfterPush(w, repo.branch))
             ELSE disk,
             <<GitCmd(repo, "push -u origin", repo.branch, ok)>>)

StashOutcomes == [stash : BOOLEAN]

\* git stash push takes the tracked changes away and leaves untracked files
stash_changes(repo, disk, out) ==
    LET present == repo.path \in DOMAIN disk
        w == disk[repo.path]
        ok == present /\ out.stash
    IN  Done(ok, IF ok THEN "Changes stashed" ELSE "Stash failed",
             IF ok /\ w.tree \in {"modified", "staged"}
             THEN SetWorld(disk, repo.path, [w EXCEPT !.tree = "clean"])
             ELSE disk,
             <<GitCmd(repo, "stash push", sEmpty, ok)>>)

DiscardOutcomes == [checkout : BOOLEAN, clean : BOOLEAN]

\* git checkout -- . restores the files from the index: unstaged edits go,
\* staged ones stay
AfterCheckout(w) == IF w.tree = "modified" THEN [w EXCEPT !.tree = "clean"] ELSE w

\* git clean -fd removes the untracked files
AfterClean(w) == IF w.tree = "untracked" THEN [w EXCEPT !.tree = "clean"] ELSE w

discard_changes_either(repo, disk, out) ==
    LET present == repo.path \in DOMAIN disk
        w == disk[repo.path]
        ok1 == present /\ out.checkout
        w1 == IF ok1 THEN AfterCheckout(w) ELSE w
        ok2 == present /\ out.clean
        w2 == IF ok2 THEN AfterClean(w1) ELSE w1
    IN  Done(ok1 \/ ok2,
             IF ok1 \/ ok2 THEN "Changes discarded" ELSE "Discard failed",
             IF present THEN SetWorld(disk, repo.path, w2) ELSE disk,
             <<GitCmd(repo, "checkout -- .", sEmpty, ok1),
               GitCmd(repo, "clean -fd", sEmpty, ok2)>>)

discard_changes_clean_first(repo, disk, out) ==
    LET present == repo.path \in DOMAIN disk
        w == disk[repo.path]
        ok2 == present /\ out.clean
        w1 == IF ok2 THEN AfterClean(w) ELSE w
        ok1 == present /\ out.checkout
        w2 == IF ok1 THEN AfterCheckout(w1) ELSE w1
    IN  Done(ok1 /\ ok2,
             IF ok1 /\ ok2 THEN "Changes discarded" ELSE "Discard failed",
             IF present THEN SetWorld(disk, repo.path, w2) ELSE disk,
             <<GitCmd(repo, "clean -fd", sEmpty, ok2),
               GitCmd(repo, "checkout -- .", sEmpty, ok1)>>)

discard_changes(repo, disk, out) ==
    LET present == repo.path \in DOMAIN disk
        w == disk[repo.path]
        ok1 == present /\ out.checkout
        w1 == IF ok1 THEN AfterCheckout(w) ELSE w
        ok2 == present /\ out.clean
        w2 == IF ok2 THEN AfterClean(w1) ELSE w1
    IN  Done(ok1 /\ ok2,
             IF ok1 /\ ok2 THEN "Changes discarded" ELSE "Discard failed",
             IF present THEN SetWorld(disk, repo.path, w2) ELSE disk,
             <<GitCmd(repo, "checkout -- .", sEmpty, ok1),
               GitCmd(repo, "clean -fd", sEmpty, ok2)>>)

ResetOutcomes == [fetch : BOOLEAN, reset : BOOLEAN, clean : BOOLEAN]

\* git reset --hard origin/<branch>: the branch and the tracked files are
\* those of the remote head
AfterReset(w) ==
    [w EXCEPT !.ahead = 0, !.behind = 0,
              !.tree = IF @ = "untracked" THEN "untracked" ELSE "clean"]

reset_to_remote_keeps_going(repo, disk, out) ==
    LET present == repo.path \in DOMAIN disk
        w == disk[repo.path]
        okFetch == present /\ out.fetch
        okReset == /\ present /\ out.reset
                   /\ HasRemoteRef(w, repo.branch) /\ w.head = repo.branch
        w1 == IF okReset THEN AfterReset(w) ELSE w
        okClean == present /\ out.clean
        c1 == <<GitCmd(repo, "fetch origin", sEmpty, okFetch)>>
        c2 == c1 \o <<GitCmd(repo, "reset --hard", <<"origin/">> \o repo.branch,
                             okReset)>>
        c3 == c2 \o <<GitCmd(repo, "clean -fd", sEmpty, okClean)>>
    IN  IF ~okReset
        THEN Done(FALSE, "Reset failed", disk, c2)
        ELSE IF ~okClean
        THEN Done(FALSE, "Clean failed", SetWorld(disk, repo.path, w1), c3)
        ELSE Done(TRUE, "Reset to origin",
                  SetWorld(disk, repo.path, AfterClean(w1)), c3)

reset_to_remote(repo, disk, out) ==
    LET present == repo.path \in DOMAIN disk
        w == disk[repo.path]
        okFetch == present /\ out.fetch
        okReset == /\ present /\ out.reset
                   /\ HasRemoteRef(w, repo.branch) /\ w.head = repo.branch
        w1 == IF okReset THEN AfterReset(w) ELSE w
        okClean == present /\ out.clean
        c1 == <<GitCmd(repo, "fetch origin", sEmpty, okFetch)>>
        c2 == c1 \o <<GitCmd(repo, "reset --hard", <<"origin/">> \o repo.branch,
                             okReset)>>
        c3 == c2 \o <<GitCmd(repo, "clean -fd", sEmpty, okClean)>>
    IN  IF ~okFetch
        THEN Done(FALSE, "Fetch failed", disk, c1)
        ELSE IF ~okReset
        THEN Done(FALSE, "Reset failed", disk, c2)
        ELSE IF ~okClean
        THEN Done(FALSE, "Clean failed", SetWorld(disk, repo.path, w1), c3)
        ELSE Done(TRUE, "Reset to origin",
                  SetWorld(disk, repo.path, AfterClean(w1)), c3)

\* ------------------------------------------------------------ provisioning
\* literals of the provisioning procedures
sRemotesOrigin == <<"r", "e", "m", "o", "t", "e", "s", "/", "o", "r", "i", "g", "i", "n", "/">>
sOriginSlash   == <<"o", "r", "i", "g", "i", "n", "/">>
sOrgApp        == <<"o", "r", "g", "/", "a", "p", "p">>
s041x          == <<"0", "4", "1", "-", "x">>
s042oauth      == <<"0", "4", "2", "-", "o", "a", "u", "t", "h", "-", "l", "o", "g", "i", "n">>
s044oauth      == <<"0", "4", "4", "-", "o", "a", "u", "t", "h", "-", "l", "o", "g", "i", "n">>
s998x          == <<"9", "9", "8", "-", "x">>
s043y          == <<"0", "4", "3", "-", "y">>
sOAuthLogin    == <<"O", "A", "u", "t", "h", " ", "l", "o", "g", "i", "n">>
sSpace         == <<" ">>
sPaddedFeat    == <<" ", "f", "e", "a", "t", " ">>
sAuthNow       == <<"I", " ", "w", "a", "n", "t", " ", "t", "o", " ", "a", "d", "d", " ", "u", "s", "e", "r", " ", "a", "u", "t", "h", "e", "n", "t", "i", "c", "a", "t", "i", "o", "n", " ", "n", "o", "w">>
sUserAuthentication == <<"u", "s", "e", "r", "-", "a", "u", "t", "h", "e", "n", "t", "i", "c", "a", "t", "i", "o", "n">>
sToBe          == <<"T", "o", " ", "b", "e">>
sAI            == <<"a", " ", "I">>
sSixWords      == <<"f", "i", "x", " ", "l", "o", "g", "i", "n", " ", "p", "a", "g", "e", " ", "c", "a", "c", "h", "e", " ", "b", "u", "g", " ", "s", "o", "o", "n">>

\* Python: s.lstrip(chars)
RECURSIVE LStrip(_, _)
LStrip(s, chars) ==
    IF Len(s) > 0 /\ s[1] \in chars THEN LStrip(Tail(s), chars) ELSE s

\* Python: s.replace(old, new), old not empty
RECURSIVE Replace(_, _, _)
Replace(s, old, new) ==
    IF Len(s) = 0 THEN s
    ELSE IF StartsWith(s, old)
         THEN new \o Replace(SubSeq(s, Len(old) + 1, Len(s)), old, new)
    ELSE <<s[1]>> \o Replace(Tail(s), old, new)

\* Python: sep.join(parts)
RECURSIVE Join(_, _)
Join(parts, sep) ==
    IF Len(parts) = 0 THEN sEmpty
    ELSE IF Len(parts) = 1 THEN parts[1]
    ELSE parts[1] \o sep \o Join(Tail(parts), sep)

\* Python: s.split("/")[-1]
RECURSIVE LastComponent(_)
LastComponent(s) ==
    IF \E i \in 1..Len(s) : s[i] = "/"
    THEN LastComponent(SubSeq(s, (CHOOSE i \in 1..Len(s) : s[i] = "/") + 1,
                             Len(s)))
    ELSE s

\* Python: seq[:n]
Take(seq, n) == SubSeq(seq, 1, IF Len(seq) < n THEN Len(seq) ELSE n)

\* Python: f"{n:03d}"
Pad3(n) == IF n < 10 THEN <<"0", "0">> \o Str(n)
           ELSE IF n < 100 THEN <<"0">> \o Str(n)
           ELSE Str(n)

sanitize_branch_for_path(branch) == Replace(branch, <<"/">>, <<"-">>)

\* re.match(r"^(\d{3})-", s): the number matched, or -1 for no match
LeadingNumber(s) ==
    IF Len(s) >= 4 /\ IsDigit(SubSeq(s, 1, 3)) /\ s[4] = "-"
    THEN ParseInt(SubSeq(s, 1, 3))
    ELSE -1

\* the elements of the set S of strings in a sequence
RECURSIVE Listed(_)
Listed(S) ==
    IF S = {} THEN << >>
    ELSE LET x == CHOOSE y \in S : TRUE IN <<x>> \o Listed(S \ {x})

\* env.branches: (name, kind) pairs; a local branch is the current branch
\* of the repository, checked out in a linked worktree of it, or neither;
\* a remote branch is a head of origin
BranchKinds == {"current", "worktree", "local", "remote"}

LocalBranches(env) == {b[1] : b \in {c \in env.branches : c[2] # "remote"}}
RemoteBranches(env) == {b[1] : b \in {c \in env.branches : c[2] = "remote"}}

\* a line of git branch: "* " marks the current branch, "+ " a branch
\* checked out in a linked worktree
BranchLine(b) ==
    CASE b[2] = "current"  -> <<"*", " ">> \o b[1]
      [] b[2] = "worktree" -> <<"+", " ">> \o b[1]
      [] b[2] = "local"    -> <<" ", " ">> \o b[1]
      [] b[2] = "remote"   -> <<" ", " ">> \o sRemotesOrigin \o b[1]

\* a line of git branch -r
RemoteLine(h) == <<" ", " ">> \o sOriginSlash \o h

\* stdout of git branch -a: the local branches, then the heads of origin
BranchAOut(env) ==
    Join([i \in 1..Cardinality(env.branches) |->
             BranchLine((Listed({b \in env.branches : b[2] # "remote"})
                         \o Listed({b \in env.branches : b[2] = "remote"}))[i])],
         <<"\n">>)

\* stdout of git branch --list <name>
BranchListOut(env, name) ==
    Join([i \in 1..Cardinality({b \in env.branches :
                                   b[2] # "remote" /\ b[1] = name}) |->
             BranchLine(Listed({b \in env.branches :
                                   b[2] # "remote" /\ b[1] = name})[i])],
         <<"\n">>)

\* stdout of git branch -r
BranchROut(env) ==
    Join([i \in 1..Cardinality(RemoteBranches(env)) |->
             RemoteLine(Listed(RemoteBranches(env))[i])],
         <<"\n">>)

\* stdout of git ls-remote --heads origin <pattern>
ProvLsRemoteOut(env, pattern) ==
    Join([i \in 1..Cardinality({h \in RemoteBranches(env) :
                                   RefMatches(h, pattern)}) |->
             LET h == Listed({g \in RemoteBranches(env) :
                                 RefMatches(g, pattern)})[i]
             IN  ShaOf(h) \o sTab \o sRefsHeads \o h],
         <<"\n">>)

\* the largest number of the set S, 0 at least
Highest(S) == CHOOSE n \in S \cup {0} : \A m \in S \cup {0} : m <= n

get_next_feature_number(env, okBranchA) ==
    LET lines == IF okBranchA THEN SplitLines(Strip(BranchAOut(env)))
                 ELSE << >>
        clean(line) == Replace(LStrip(Strip(line), {"*", " "}),
                               sRemotesOrigin, sEmpty)
        fromBranches == {LeadingNumber(clean(lines[i])) : i \in 1..Len(lines)}
        fromSpecs == {LeadingNumber(d) : d \in env.specs}
    IN  Highest(fromBranches \cup fromSpecs) + 1

stop_words ==
    {<<"i">>, <<"a">>, <<"a", "n">>, <<"t", "h", "e">>, <<"t", "o">>,
     <<"f", "o", "r">>, <<"o", "f">>, <<"i", "n">>, <<"o", "n">>,
     <<"a", "t">>, <<"b", "y">>, <<"w", "i", "t", "h">>,
     <<"f", "r", "o", "m">>, <<"i", "s">>, <<"a", "r", "e">>,
     <<"w", "a", "s">>, <<"w", "e", "r", "e">>, <<"b", "e">>,
     <<"b", "e", "e", "n">>, <<"b", "e", "i", "n", "g">>,
     <<"h", "a", "v", "e">>, <<"h", "a", "s">>, <<"h", "a", "d">>,
     <<"d", "o">>, <<"d", "o", "e", "s">>, <<"d", "i", "d">>,
     <<"w", "i", "l", "l">>, <<"w", "o", "u", "l", "d">>,
     <<"s", "h", "o", "u", "l", "d">>, <<"c", "o", "u", "l", "d">>,
     <<"c", "a", "n">>, <<"m", "a", "y">>, <<"m", "i", "g", "h", "t">>,
     <<"m", "u", "s", "t">>, <<"s", "h", "a", "l", "l">>,
     <<"t", "h", "i", "s">>, <<"t", "h", "a", "t">>,
     <<"t", "h", "e", "s", "e">>, <<"t", "h", "o", "s", "e">>,
     <<"m", "y">>, <<"y", "o", "u", "r">>, <<"o", "u", "r">>,
     <<"t", "h", "e", "i", "r">>, <<"w", "a", "n", "t">>,
     <<"n", "e", "e", "d">>, <<"a", "d", "d">>, <<"g", "e", "t">>,
     <<"s", "e", "t">>, <<"b", "u", "i", "l", "d">>,
     <<"c", "r", "e", "a", "t", "e">>,
     <<"i", "m", "p", "l", "e", "m", "e", "n", "t">>,
     <<"d", "e", "v", "e", "l", "o", "p">>, <<"m", "a", "k", "e">>,
     <<"n", "e", "w">>}

Letters == {"a", "b", "c", "d", "e", "f", "g", "h", "i", "j", "k", "l", "m",
            "n", "o", "p", "q", "r", "s", "t", "u", "v", "w", "x", "y", "z"}

\* the length of the run of letters s starts with
RECURSIVE LetterRun(_)
LetterRun(s) ==
    IF Len(s) = 0 \/ s[1] \notin Letters THEN 0 ELSE 1 + LetterRun(Tail(s))

\* re.findall(r"[a-zA-Z]+", s) for a lower-case s
RECURSIVE WordsOf(_)
WordsOf(s) ==
    IF Len(s) = 0 THEN << >>
    ELSE IF s[1] \notin Letters THEN WordsOf(Tail(s))
    ELSE <<SubSeq(s, 1, LetterRun(s))>>
         \o WordsOf(SubSeq(s, LetterRun(s) + 1, Len(s)))

generate_speckit_branch_name(description) ==
    LET words == WordsOf(Lower(description))
        meaningful == SelectSeq(words, LAMBDA w : w \notin stop_words /\ Len(w) >= 3)
        fallback == Take(SelectSeq(words, LAMBDA w : Len(w) >= 2), 3)
        chosen == IF Len(meaningful) = 0 THEN fallback ELSE meaningful
    IN  IF Len(chosen) = 0 THEN sFeature
        ELSE Join(Take(chosen, 4), <<"-">>)

\* a command a provisioning procedure issued, and whether it succeeded
PCmd(dir, cmd, ok) == [dir |-> dir, cmd |-> cmd, ok |-> ok]

\* what a provisioning procedure returns and leaves behind: the children
\* of the scan directory, the commands it issued, the feature number and
\* branch name it computed
PDone(ok, msg, paths, cmds, num, branch) ==
    [ok |-> ok, msg |-> msg, paths |-> paths, cmds |-> cmds,
     feature_num |-> num, branch_name |-> branch]

\* git worktree add -b <branch> <path>: git refuses a branch that exists
\* and a path that exists
AddNewBranch(env, paths, branch, path, o) ==
    o /\ branch \notin LocalBranches(env) /\ path \notin paths

CreateOutcomes == [list : BOOLEAN, ls : BOOLEAN, add : BOOLEAN]

create_branch_worktree(repo, raw_name, env, out) ==
    LET branch_name == Strip(raw_name)
        existing == Strip(BranchListOut(env, branch_name))
        remote_existing == Strip(ProvLsRemoteOut(env, branch_name))
        worktree_path == repo.name \o <<"-">>
                           \o sanitize_branch_for_path(branch_name)
        c1 == <<PCmd(repo.path, "branch --list", out.list)>>
        c2 == Append(c1, PCmd(repo.path, "ls-remote", out.ls))
        added == AddNewBranch(env, env.paths, branch_name, worktree_path,
                              out.add)
        c3 == Append(c2, PCmd(repo.path, "worktree add -b", added))
    IN  IF Len(raw_name) = 0 \/ Len(branch_name) = 0
        THEN PDone(FALSE, "Branch name cannot be empty", env.paths, << >>,
                   0, sEmpty)
        ELSE IF out.list /\ Len(existing) > 0
        THEN PDone(FALSE, "Branch already exists", env.paths, c1,
                   0, branch_name)
        ELSE IF out.ls /\ Contains(branch_name, remote_existing)
        THEN PDone(FALSE, "Remote branch already exists", env.paths, c2,
                   0, branch_name)
        ELSE IF worktree_path \in env.paths
        THEN PDone(FALSE, "Path already exists", env.paths, c2,
                   0, branch_name)
        ELSE IF added
        THEN PDone(TRUE, "Created worktree", env.paths \cup {worktree_path},
                   c3, 0, branch_name)
        ELSE PDone(FALSE, "Worktree creation failed", env.paths, c3,
                   0, branch_name)

SpeckitOutcomes ==
    [branchA : BOOLEAN, list : BOOLEAN, ls : BOOLEAN, add : BOOLEAN]

create_speckit_worktree(repo, raw_description, env, out) ==
    LET description == Strip(raw_description)
        feature_num == get_next_feature_number(env, out.branchA)
        branch_name == Pad3(feature_num) \o <<"-">>
                         \o generate_speckit_branch_name(description)
        existing == Strip(BranchListOut(env, branch_name))
        remote_existing == Strip(ProvLsRemoteOut(env, branch_name))
        worktree_path == repo.name \o <<"-">> \o branch_name
        c0 == <<PCmd(repo.path, "branch -a", out.branchA)>>
        c1 == Append(c0, PCmd(repo.path, "branch --list", out.list))
        c2 == Append(c1, PCmd(repo.path, "ls-remote", out.ls))
        added == AddNewBranch(env, env.paths, branch_name, worktree_path,
                              out.add)
        c3 == Append(c2, PCmd(repo.path, "worktree add -b", added))
    IN  IF Len(raw_description) = 0 \/ Len(description) = 0
        THEN PDone(FALSE, "Feature description cannot be empty", env.paths,
                   << >>, 0, sEmpty)
        ELSE IF out.list /\ Len(existing) > 0
        THEN PDone(FALSE, "Branch already exists", env.paths, c1,
                   feature_num, branch_name)
        ELSE IF out.ls /\ Contains(branch_name, remote_existing)
        THEN PDone(FALSE, "Remote branch already exists", env.paths, c2,
                   feature_num, branch_name)
        ELSE IF worktree_path \in env.paths
        THEN PDone(FALSE, "Path already exists", env.paths, c2,
                   feature_num, branch_name)
        ELSE IF added
        THEN PDone(TRUE, "Created speckit worktree",
                   env.paths \cup {worktree_path}, c3, feature_num,
                   branch_name)
        ELSE PDone(FALSE, "Worktree creation failed", env.paths, c3,
                   feature_num, branch_name)

\* out: the outcomes of the calls checkout_pr_to_worktree can make
\*   gh      gh pr view returns the head branch of the pull request
\*   ssh     git clone over SSH succeeds
\*   https   git clone over HTTPS succeeds
\*   fetch   git fetch --all succeeds
\*   branchR git branch -r succeeds
\*   track   git worktree add --track -b succeeds
\*   plain   git worktree add <path> <branch> succeeds
CheckoutOutcomes ==
    [gh : BOOLEAN, ssh : BOOLEAN, https : BOOLEAN, fetch : BOOLEAN,
     branchR : BOOLEAN, track : BOOLEAN, plain : BOOLEAN]

\* the two worktree add forms tried one after the other, whatever the first
\* one returns
add_worktree_tries_both(dir, paths, worktree_path, cmds, out) ==
    LET tracked == out.track /\ worktree_path \notin paths
        plain == out.plain /\ worktree_path \notin paths
        c1 == Append(cmds, PCmd(dir, "worktree add --track -b", tracked))
        c2 == Append(c1, PCmd(dir, "worktree add", plain))
    IN  IF tracked \/ plain
        THEN PDone(TRUE, "Created worktree", paths \cup {worktree_path},
                   c2, 0, sEmpty)
        ELSE PDone(FALSE, "Worktree creation failed", paths, c2, 0, sEmpty)

\* git worktree add --track -b, then git worktree add when that failed
add_worktree(dir, paths, worktree_path, cmds, out) ==
    LET tracked == out.track /\ worktree_path \notin paths
        plain == out.plain /\ worktree_path \notin paths
        c1 == Append(cmds, PCmd(dir, "worktree add --track -b", tracked))
        c2 == Append(c1, PCmd(dir, "worktree add", plain))
    IN  IF tracked
        THEN PDone(TRUE, "Created worktree", paths \cup {worktree_path},
                   c1, 0, sEmpty)
        ELSE IF plain
        THEN PDone(TRUE, "Created worktree", paths \cup {worktree_path},
                   c2, 0, sEmpty)
        ELSE PDone(FALSE, "Worktree creation failed", paths, c2, 0, sEmpty)

clone_repo_with_worktree(repo_full_name, pr_branch, env, cmds, out) ==
    LET repo_name == LastComponent(repo_full_name)
        cloning == repo_name \notin env.paths
        c1 == IF ~cloning THEN cmds
              ELSE IF out.ssh
              THEN Append(cmds, PCmd(sEmpty, "clone ssh", TRUE))
              ELSE cmds \o <<PCmd(sEmpty, "clone ssh", FALSE),
                              PCmd(sEmpty, "clone https", out.https)>>
        paths1 == IF cloning THEN env.paths \cup {repo_name} ELSE env.paths
        c2 == Append(c1, PCmd(repo_name, "fetch --all", out.fetch))
        c3 == Append(c2, PCmd(repo_name, "branch -r", out.branchR))
        remote_branches == Strip(BranchROut(env))
        worktree_path == repo_name \o <<"-">>
                           \o sanitize_branch_for_path(pr_branch)
    IN  IF cloning /\ ~out.ssh /\ ~out.https
        THEN PDone(FALSE, "Clone failed", env.paths, c1, 0, sEmpty)
        ELSE IF ~out.branchR
                \/ ~Contains(sOriginSlash \o pr_branch, remote_branches)
        THEN PDone(FALSE, "Branch not found on remote", paths1, c3, 0, sEmpty)
        ELSE IF worktree_path \in paths1
        THEN PDone(FALSE, "Path already exists", paths1, c3, 0, sEmpty)
        ELSE add_worktree(repo_name, paths1, worktree_path, c3, out)

\* pr.local_path = sEmpty stands for None
checkout_pr_to_worktree(pr, prBranch, env, out) ==
    LET asked == Len(pr.branch) = 0
        branch == IF asked THEN (IF out.gh THEN prBranch ELSE sEmpty)
                  ELSE pr.branch
        c0 == IF asked THEN <<PCmd(sEmpty, "gh pr view", out.gh)>> ELSE << >>
        worktree_path == pr.repo_name \o <<"-">>
                           \o sanitize_branch_for_path(branch)
        c1 == Append(c0, PCmd(pr.local_path, "fetch --all", out.fetch))
    IN  IF pr.local_status = "Checked out"
        THEN PDone(FALSE, "Already checked out", env.paths, << >>, 0, sEmpty)
        ELSE IF Len(branch) = 0
        THEN PDone(FALSE, "Could not determine PR branch name", env.paths,
                   c0, 0, sEmpty)
        ELSE IF pr.local_status = "Not cloned"
        THEN clone_repo_with_worktree(pr.repo_full_name, branch, env, c0, out)
        ELSE IF pr.local_status = "Available"
        THEN IF Len(pr.local_path) > 0
             THEN IF worktree_path \in env.paths
                  THEN PDone(FALSE, "Path already exists", env.paths, c0,
                             0, sEmpty)
                  ELSE add_worktree(pr.local_path, env.paths, worktree_path,
                                    c1, out)
             ELSE clone_repo_with_worktree(pr.repo_full_name, branch, env,
                                           c0, out)
        ELSE PDone(FALSE, "Unknown local status", env.paths, c0, 0, sEmpty)

\* ------------------------------------------------------------ GitStatusApp
VARIABLES
    fs,          \* the child directories of scan_dir: name -> world record
    registry,    \* worktree directories their owning repository lists
    seen,        \* name -> the world record the last scan inspected
    failed,      \* name -> the tracked calls that failed in the last scan
    invoked,     \* world records, as last scanned before the key press, of
                 \* the repositories the last confirmed batch acted on
    repos,       \* self.repos: the repositories on display
    selected,    \* self.selected
    screen,      \* "main", "confirm" (ConfirmModal), "results" (ResultsModal)
                 \* or "crashed" (an exception left a callback)
    pending,     \* the do_action closure a ConfirmModal holds
    worker,      \* the _scan_repos_worker: "idle", "running", "error", or
                 \* "success" (returned, on_worker_state_changed to come)
    is_loading,  \* self.is_loading
    log,         \* commands issued by the last confirmed batch
    results,     \* the (name, ok, message) list of the last confirmed batch
    batch,       \* the action of the last confirmed batch, its eligible list
                 \* (ranOn) and skipped list, the names action_fn was called
                 \* on in order (called), and the repository list on display
                 \* when the user confirmed (shownAt)
    before,      \* the directories as they were when the user confirmed
    batches,     \* how many batches the user has confirmed
    max_workers, \* the max_workers argument of the scan_repos call
    tasks,       \* the futures of the scan_repos call under way: name ->
                 \* how far its check_repo has come and what it returned
    completed,   \* the names in the order as_completed yields their futures
    prov,        \* a call of a provisioning procedure: the operation, its
                 \* request, the repository and scan directory it finds,
                 \* and, once it has run, what it returned
    active_tab,  \* self.active_tab: "repos", "prs" or "config"
    pr_worker,   \* the _scan_prs_worker: "idle", "running" or "cancelled"
    all_prs,     \* self.all_prs, as the numbers of the pull requests
    filter_text, \* self.filter_text
    all_repos,   \* self.all_repos
    awaiting     \* a confirmed batch has called refresh_repos and no scan
                 \* has populated the repository table since

\* the ThreadPoolExecutor of a scan_repos call
poolVars == <<max_workers, tasks, completed>>

\* the tabs, the pull-request worker and the filter
uiVars == <<active_tab, pr_worker, all_prs, filter_text, all_repos, awaiting>>

vars == <<fs, registry, seen, failed, invoked, repos, selected, screen,
          pending, worker, is_loading, log, results, batch, before, batches,
          max_workers, tasks, completed, prov, active_tab, pr_worker, all_prs,
          filter_text, all_repos, awaiting>>

\* what a provisioning procedure that has not run has returned
NoResult == PDone(FALSE, "", {}, << >>, 0, sEmpty)

\* no provisioning procedure is called
NoProv == [op |-> "none", state |-> "idle",
           req |-> [text |-> sEmpty, pr |-> << >>],
           env |-> [branches |-> {}, paths |-> {}, specs |-> {}],
           result |-> NoResult]

\* the gateway calls whose failure the model remembers
TrackedCalls == {"branch", "lsremote", "status"}

\* the action_<name> key bindings that go through execute_action
ActionNames == {"pull", "rebase", "force_push", "create_remote", "stash",
                "discard", "reset_to_remote", "delete_local"}

check_fn(a, r) ==
    CASE a = "pull" -> can_pull(r)
      [] a = "rebase" -> can_rebase(r)
      [] a = "force_push" -> can_force_push(r)
      [] a = "create_remote" -> can_create_remote(r)
      [] a = "stash" -> can_stash(r)
      [] a = "discard" -> can_discard(r)
      [] a = "reset_to_remote" -> can_reset_to_remote(r)
      [] a = "delete_local" -> can_delete_local(r)

reason_fn(a, r) ==
    CASE a = "pull" -> why_not_pull(r)
      [] a = "rebase" -> why_not_rebase(r)
      [] a = "force_push" -> why_not_force_push(r)
      [] a = "create_remote" -> why_not_create_remote(r)
      [] a = "stash" -> why_not_stash(r)
      [] a = "discard" -> why_not_discard(r)
      [] a = "reset_to_remote" -> why_not_reset_to_remote(r)
      [] a = "delete_local" -> why_not_delete_local(r)

action_fn(a, repo, disk, out) ==
    CASE a = "pull" -> pull_rebase(repo, disk, out)
      [] a = "rebase" -> rebase_on_main(repo, disk, out)
      [] a = "force_push" -> force_push(repo, disk, out)
      [] a = "create_remote" -> create_remote(repo, disk, out)
      [] a = "stash" -> stash_changes(repo, disk, out)
      [] a = "discard" -> discard_changes(repo, disk, out)
      [] a = "reset_to_remote" -> reset_to_remote(repo, disk, out)
      [] a = "delete_local" -> delete_local_folder(repo, disk, out)

\* the outcomes the gateway can give the commands of one procedure
ProcOutcomes(a) ==
    CASE a \in {"pull", "rebase"} -> RebaseOutcomes
      [] a \in {"force_push", "create_remote"} -> PushOutcomes
      [] a = "stash" -> StashOutcomes
      [] a = "discard" -> DiscardOutcomes
      [] a = "reset_to_remote" -> ResetOutcomes
      [] a = "delete_local" -> DeleteOutcomes

\* seenAt: the scan records the eligible list was computed from;
\* selected: the local list execute_action split
NoPending == [action |-> "none", eligible |-> << >>, skipped |-> << >>,
              seenAt |-> << >>, selected |-> << >>]

NoBatch == [action |-> "none", ranOn |-> << >>, skipped |-> << >>,
            called |-> << >>, shownAt |-> << >>]

\* Python: [x for x in xs if keep(x)] over list positions
RECURSIVE SelectSeq2(_, _)
SelectSeq2(xs, keep) ==
    IF Len(xs) = 0 THEN << >>
    ELSE (IF xs[1] \in keep THEN <<xs[1]>> ELSE << >>) \o SelectSeq2(Tail(xs), keep)

get_selected_repos(rs, sel) ==
    SelectSeq2(rs, {r \in {rs[i] : i \in 1..Len(rs)} : r.name \in sel})

eligible_of_everything(a, sel) == sel

\* eligible = [r for r in selected if check_fn(r)]
eligible_of(a, sel) ==
    SelectSeq2(sel, {r \in {sel[i] : i \in 1..Len(sel)} : check_fn(a, r)})

\* skipped = [(r, reason_fn(r)) for r in selected if not check_fn(r)]
skipped_of(a, sel) ==
    LET notEl == SelectSeq2(sel, {r \in {sel[i] : i \in 1..Len(sel)} :
                                     ~check_fn(a, r)})
    IN  [i \in 1..Len(notEl) |-> <<notEl[i], reason_fn(a, notEl[i])>>]

\* the for-loop of do_action: action_fn on each eligible repository in turn;
\* an exception raised by action_fn leaves the loop and the handler
RECURSIVE RunBatch(_, _, _, _, _)
RunBatch(a, eligible, outs, i, acc) ==
    IF i > Len(eligible) \/ acc.raised THEN acc
    ELSE LET repo == eligible[i]
             r == action_fn(a, repo, acc.disk, outs[i])
             detached == \E k \in 1..Len(r.cmds) :
                            r.cmds[k].cmd = "worktree remove" /\ r.cmds[k].ok
         IN  RunBatch(a, eligible, outs, i + 1,
                 [disk |-> r.disk,
                  registry |-> IF detached THEN acc.registry \ {repo.path}
                               ELSE acc.registry,
                  cmds |-> acc.cmds \o r.cmds,
                  called |-> Append(acc.called, repo.name),
                  results |-> IF r.raised THEN acc.results
                              ELSE Append(acc.results, <<repo.name, r.ok, r.msg>>),
                  raised |-> r.raised])

\* a world record of one directory
AllWorlds ==
    {w \in [name : DirNames, gitFile : BOOLEAN,
            pointer : {"ok", "bad", "unreadable"},
            owner : {sApp, sMonorepo}, ownerExists : BOOLEAN,
            head : BranchOutputs,
            heads : {H \in SUBSET HeadNames : Cardinality(H) <= MaxHeads},
            ahead : 0..MaxCount, behind : 0..MaxCount,
            behindTrunk : 0..MaxCount, tree : Trees, rebasing : {FALSE}] :
        \* a plain repository has no pointer file; a worktree is a directory
        \* of its own, named after its branch
        /\ w.gitFile <=> w.name = sAppFeat
        /\ ~w.gitFile => w.pointer = "ok" /\ w.owner = sApp /\ w.ownerExists
        /\ w.pointer # "ok" => w.owner = sApp /\ w.ownerExists
        \* counts are against refs that exist
        /\ w.head \notin w.heads => w.ahead = 0 /\ w.behind = 0
        /\ get_main_branch(w, w.gitFile) \notin w.heads => w.behindTrunk = 0
        /\ w.head \in {get_main_branch(w, w.gitFile), sMain, sDev, sMaster}
              => w.behindTrunk = 0}

\* the worlds the inspector is run over: a missing owner directory is not
\* something check_repo looks at
Worlds == {w \in AllWorlds : w.ownerExists}

\* the worlds the dashboard is run over: a feature branch whose origin has
\* the same-named head, a head it is only a path suffix of, both or neither
AppWorlds ==
    {w \in AllWorlds :
        /\ w.name \in {sApp, sAppFeat}
        /\ w.owner = sApp /\ w.ownerExists
        /\ w.head = sFeat
        /\ w.heads \in {{}, {sFeat}, {sXFeat}, {sFeat, sMain}}
        /\ w.ahead <= 1 /\ w.behind <= 1 /\ w.behindTrunk <= 1
        /\ (sMain \in w.heads => w.ahead = 0)
        /\ w.tree \in {"clean", "modified"}}

\* def scan_repos(scan_dir, max_workers: int = 16)
DefaultMaxWorkers == 16

\* the state after __init__ and on_mount, over the directories in disk, with
\* scan_repos given the worker bound W
InitWith(disk, W) ==
    /\ fs = disk
    /\ registry = {d \in DOMAIN fs :
                      fs[d].gitFile /\ fs[d].pointer = "ok" /\ fs[d].ownerExists}
    /\ seen = << >>
    /\ failed = << >>
    /\ invoked = {}
    /\ repos = << >>
    /\ selected = {}
    /\ screen = "main"
    /\ pending = NoPending
    /\ worker = "running"
    /\ is_loading = TRUE
    /\ log = << >>
    /\ results = << >>
    /\ batch = NoBatch
    /\ before = << >>
    /\ batches = 0
    /\ max_workers = W
    /\ tasks = << >>
    /\ completed = << >>
    /\ active_tab = "repos"
    /\ pr_worker = "idle"
    /\ all_prs = << >>
    /\ filter_text = sEmpty
    /\ all_repos = << >>
    /\ awaiting = FALSE

\* the dashboard calls scan_repos(self.scan_dir)
InitOver(disk) == InitWith(disk, DefaultMaxWorkers) /\ prov = NoProv

\* _apply_filter: the repositories of all whose name or branch contains
\* the filter text, both lower-cased
_apply_filter(all, text) ==
    IF Len(text) = 0 THEN all
    ELSE SelectSeq(all, LAMBDA r : \/ Contains(Lower(text), Lower(r.name))
                                  \/ Contains(Lower(text), Lower(r.branch)))

\* run_worker(..., exclusive=True) cancels the workers of the same group
\* that are still running: both scan workers are in the default group
Cancelled(w) == IF w = "running" THEN "cancelled" ELSE w

\* the sets of at most k of the pairs P
RECURSIVE FailSets(_, _)
FailSets(P, k) ==
    IF k = 0 THEN {{}}
    ELSE LET S == FailSets(P, k - 1)
         IN  S \cup {F \cup {p} : F \in S, p \in P}

\* the gateway outcomes of one scan of the directories D in which at most
\* k calls fail
ScanOutcomes(D, k) ==
    {[d \in D |-> [c \in Calls |-> <<d, c>> \notin F]] :
        F \in FailSets(D \X Calls, k)}

\* on_worker_state_changed(SUCCESS) for _scan_repos_worker:
\* _populate_repo_table(scan_repos(scan_dir)).  Nothing reads the table
\* while a ResultsModal is open, so the completion is taken after the
\* modal has closed: the table it leaves is the same either way.
ScanWith(k) ==
    /\ worker = "running"
    /\ screen \notin {"crashed", "results"}
    /\ \E order \in Orders(DOMAIN fs), oks \in ScanOutcomes(DOMAIN fs, k) :
          IF scan_repos_raises(fs, oks)
          THEN \* the worker ends in WorkerState.ERROR; run_worker was
               \* called with the default exit_on_error: the app exits
               /\ worker' = "error"
               /\ screen' = "crashed"
               /\ UNCHANGED <<repos, failed, seen, is_loading, all_repos,
                              awaiting>>
          ELSE /\ all_repos' = _sort_repos(scan_repos(fs, order, oks))
               /\ repos' = _apply_filter(all_repos', filter_text)
               /\ failed' = [d \in DOMAIN fs |->
                                {c \in TrackedCalls : ~oks[d][c]}]
               /\ seen' = fs
               /\ worker' = "idle"
               /\ is_loading' = FALSE
               /\ awaiting' = FALSE
               /\ UNCHANGED screen
    /\ UNCHANGED <<fs, registry, invoked, selected, pending, log, results, batch, before, batches>>
    /\ UNCHANGED <<poolVars, prov, active_tab, pr_worker, all_prs, filter_text>>

\* a scan in which at most MaxFailures gateway calls fail
ScanDone == ScanWith(MaxFailures)

\* a scan in which every gateway call succeeds
ScanDoneClean == ScanWith(0)

\* action_refresh on the repos tab
Refresh ==
    /\ screen = "main"
    /\ active_tab = "repos"
    /\ worker' = "running"
    /\ pr_worker' = Cancelled(pr_worker)
    /\ is_loading' = TRUE
    /\ UNCHANGED <<fs, registry, seen, failed, invoked, repos, selected, screen,
                   pending, log, results, batch, before, batches>>
    /\ UNCHANGED <<poolVars, prov, active_tab, all_prs, filter_text, all_repos,
                   awaiting>>

\* action_toggle_select with the cursor on row i
ToggleSelect(i) ==
    /\ screen = "main"
    /\ active_tab = "repos"
    /\ i \in 1..Len(repos)
    /\ selected' = IF repos[i].name \in selected
                   THEN selected \ {repos[i].name}
                   ELSE selected \cup {repos[i].name}
    /\ UNCHANGED <<fs, registry, seen, failed, invoked, repos, screen, pending,
                   worker, is_loading, log, results, batch, before, batches>>
    /\ UNCHANGED <<poolVars, prov, uiVars>>

\* action_clear_selection on the repos tab
ClearSelection ==
    /\ screen = "main"
    /\ active_tab = "repos"
    /\ selected' = {}
    /\ UNCHANGED <<fs, registry, seen, failed, invoked, repos, screen, pending,
                   worker, is_loading, log, results, batch, before, batches>>
    /\ UNCHANGED <<poolVars, prov, uiVars>>

\* execute_action up to push_screen(ConfirmModal, do_action)
ExecuteAction(a) ==
    /\ screen = "main"
    /\ active_tab = "repos"
    /\ batches < MaxBatches
    /\ LET sel == get_selected_repos(repos, selected)
           eligible == eligible_of(a, sel)
           skipped == skipped_of(a, sel)
       IN  /\ Len(sel) > 0
           /\ Len(eligible) > 0
           /\ pending' = [action |-> a, eligible |-> eligible, skipped |-> skipped,
                          seenAt |-> seen, selected |-> sel]
           /\ screen' = "confirm"
    /\ UNCHANGED <<fs, registry, seen, failed, invoked, repos, selected, worker,
                   is_loading, log, results, batch, before, batches>>
    /\ UNCHANGED <<poolVars, prov, uiVars>>

\* do_action(False): the ConfirmModal is dismissed with n / escape
Cancel ==
    /\ screen = "confirm"
    /\ screen' = "main"
    /\ pending' = NoPending
    /\ UNCHANGED <<fs, registry, seen, failed, invoked, repos, selected, worker,
                   is_loading, log, results, batch, before, batches>>
    /\ UNCHANGED <<poolVars, prov, uiVars>>

\* do_action(True)
Confirm ==
    /\ screen = "confirm"
    /\ batches' = batches + 1
    /\ \E outs \in [1..Len(pending.eligible) -> ProcOutcomes(pending.action)] :
          LET b == RunBatch(pending.action, pending.eligible, outs, 1,
                            [disk |-> fs, registry |-> registry, cmds |-> << >>,
                             called |-> << >>, results |-> << >>,
                             raised |-> FALSE])
          IN  /\ fs' = b.disk
              /\ batch' = [action |-> pending.action, ranOn |-> pending.eligible,
                           skipped |-> pending.skipped, called |-> b.called,
                           shownAt |-> repos]
              /\ registry' = b.registry
              /\ log' = b.cmds
              /\ invoked' = {pending.seenAt[b.cmds[k].dir] : k \in 1..Len(b.cmds)}
              /\ results' = b.results
              /\ IF b.raised
                 THEN \* the exception leaves the callback: the app exits
                      /\ screen' = "crashed"
                      /\ UNCHANGED <<worker, is_loading, pr_worker, awaiting>>
                 ELSE \* push_screen(ResultsModal); refresh_repos()
                      /\ screen' = "results"
                      /\ worker' = "running"
                      /\ pr_worker' = Cancelled(pr_worker)
                      /\ is_loading' = TRUE
                      /\ awaiting' = TRUE
    /\ before' = fs
    /\ pending' = NoPending
    /\ UNCHANGED <<seen, failed, repos, selected>>
    /\ UNCHANGED <<poolVars, prov, active_tab, all_prs, filter_text, all_repos>>

\* the ResultsModal is dismissed; the record of the batch goes with it
DismissResults ==
    /\ screen = "results"
    /\ screen' = "main"
    /\ invoked' = {}
    /\ log' = << >>
    /\ results' = << >>
    /\ batch' = NoBatch
    /\ before' = << >>
    /\ UNCHANGED <<fs, registry, seen, failed, repos, selected, pending,
                   worker, is_loading, batches>>
    /\ UNCHANGED <<poolVars, prov, uiVars>>

Next ==
    \/ ScanDone
    \/ Refresh
    \/ \E i \in 1..Len(repos) : ToggleSelect(i)
    \/ ClearSelection
    \/ \E a \in ActionNames : ExecuteAction(a)
    \/ Cancel
    \/ Confirm
    \/ DismissResults

Init == \E w \in AppWorlds : InitOver([d \in {w.name} |-> w])

Spec == Init /\ [][Next]_vars

\* the worlds a batch over two directories is run over: a plain repository
\* on a feature branch or on main and a worktree of it on the feature
\* branch, each with its remote branch or without one
BatchWorlds ==
    {w \in AllWorlds :
        /\ w.name \in {sApp, sAppFeat}
        /\ w.owner = sApp /\ w.ownerExists
        /\ w.pointer \in {"ok", "unreadable"}
        /\ w.head \in {sFeat, sMain}
        /\ (w.gitFile => w.head = sFeat)
        /\ w.heads \in {{}, {w.head}}
        /\ w.ahead <= 1 /\ w.behind <= 1 /\ w.behindTrunk = 0
        /\ w.tree \in {"clean", "modified"}}

\* the dashboard over a scan directory with two children
InitBatch ==
    \E w1 \in BatchWorlds, w2 \in BatchWorlds :
        /\ w1.name = sApp
        /\ w2.name = sAppFeat
        /\ InitOver([d \in {sApp, sAppFeat} |-> IF d = sApp THEN w1 ELSE w2])

NextBatch ==
    \/ ScanDoneClean
    \/ Refresh
    \/ \E i \in 1..Len(repos) : ToggleSelect(i)
    \/ ClearSelection
    \/ \E a \in ActionNames : ExecuteAction(a)
    \/ Cancel
    \/ Confirm
    \/ DismissResults

SpecBatch == InitBatch /\ [][NextBatch]_vars

\* the inspector alone, over every world: one scan of one directory
InitInspect == \E w \in Worlds : InitOver([d \in {w.name} |-> w])

NextInspect == ScanDone

SpecInspect == InitInspect /\ [][NextInspect]_vars

\* --------------------------------------- scan_repos, one thread step a time
\* to_scan: the candidates in the order of sorted(scan_dir.iterdir())
RECURSIVE to_scan(_)
to_scan(S) ==
    IF S = {} THEN << >>
    ELSE LET first == CHOOSE d \in S : \A e \in S \ {d} : StrLess(d, e)
         IN  <<first>> \o to_scan(S \ {first})

\* the position of directory d in the work queue of the executor
QueuePos(d) == CHOOSE i \in 1..Cardinality(DOMAIN fs) : to_scan(DOMAIN fs)[i] = d

\* the futures a worker thread of the executor is running
Active == {d \in DOMAIN tasks : tasks[d].phase \in {"branch", "fetch", "rest"}}

\* the underlying repository whose refs and objects a git command run in the
\* directory reads and writes: a worktree's .git file points into its owner
GitDirOf(w) == IF w.gitFile /\ w.pointer = "ok" THEN w.owner ELSE w.name

\* scan_repos up to the end of the executor.submit calls
PoolSubmit ==
    /\ worker = "running"
    /\ DOMAIN tasks = {}
    /\ tasks' = [d \in DOMAIN fs |->
                    [phase |-> "queued", status |-> NoStatus, failed |-> {}]]
    /\ completed' = << >>
    /\ UNCHANGED <<fs, registry, seen, failed, invoked, repos, selected, screen,
                   pending, worker, is_loading, log, results, batch, before,
                   batches, max_workers>>
    /\ UNCHANGED <<prov, uiVars>>

\* a worker thread takes any queued work item, bound or no bound
TaskStart_unbounded(d) ==
    /\ d \in DOMAIN tasks
    /\ tasks[d].phase = "queued"
    /\ tasks' = [tasks EXCEPT ![d].phase = "branch"]
    /\ UNCHANGED <<fs, registry, seen, failed, invoked, repos, selected, screen,
                   pending, worker, is_loading, log, results, batch, before,
                   batches, max_workers, completed>>
    /\ UNCHANGED <<prov, uiVars>>

\* one of the at most max_workers threads of the executor takes the oldest
\* work item of the queue and enters check_repo
TaskStart(d) ==
    /\ d \in DOMAIN tasks
    /\ tasks[d].phase = "queued"
    /\ \A e \in DOMAIN tasks :
          tasks[e].phase = "queued" => QueuePos(d) <= QueuePos(e)
    /\ Cardinality(Active) < max_workers
    /\ tasks' = [tasks EXCEPT ![d].phase = "branch"]
    /\ UNCHANGED <<fs, registry, seen, failed, invoked, repos, selected, screen,
                   pending, worker, is_loading, log, results, batch, before,
                   batches, max_workers, completed>>
    /\ UNCHANGED <<prov, uiVars>>

\* check_repo: the current-branch query returns; on failure the task is over
TaskBranch(d) ==
    /\ d \in DOMAIN tasks
    /\ tasks[d].phase = "branch"
    /\ \E ok \in BOOLEAN :
          IF ok
          THEN /\ tasks' = [tasks EXCEPT ![d].phase = "fetch"]
               /\ UNCHANGED completed
          ELSE /\ tasks' = [tasks EXCEPT ![d] = [phase |-> "done",
                                                 status |-> NoStatus,
                                                 failed |-> {"branch"}]]
               /\ completed' = Append(completed, d)
    /\ UNCHANGED <<fs, registry, seen, failed, invoked, repos, selected, screen,
                   pending, worker, is_loading, log, results, batch, before,
                   batches, max_workers>>
    /\ UNCHANGED <<prov, uiVars>>

\* check_repo: git fetch --all --quiet returns; its result is not looked at
TaskFetch(d) ==
    /\ d \in DOMAIN tasks
    /\ tasks[d].phase = "fetch"
    /\ tasks' = [tasks EXCEPT ![d].phase = "rest"]
    /\ UNCHANGED <<fs, registry, seen, failed, invoked, repos, selected, screen,
                   pending, worker, is_loading, log, results, batch, before,
                   batches, max_workers, completed>>
    /\ UNCHANGED <<prov, uiVars>>

\* check_repo from ls-remote to its return: the future completes
TaskRest(d) ==
    /\ d \in DOMAIN tasks
    /\ tasks[d].phase = "rest"
    /\ \E F \in FailSets(Calls \ {"branch"}, MaxFailures) :
          LET ok == [c \in Calls |-> c \notin F]
          IN  tasks' = [tasks EXCEPT ![d] =
                           [phase |-> "done",
                            status |-> check_repo(fs[d], fs[d].gitFile, ok),
                            failed |-> {c \in TrackedCalls : ~ok[c]}]]
    /\ completed' = Append(completed, d)
    /\ UNCHANGED <<fs, registry, seen, failed, invoked, repos, selected, screen,
                   pending, worker, is_loading, log, results, batch, before,
                   batches, max_workers>>
    /\ UNCHANGED <<prov, uiVars>>

\* the repos list of scan_repos: the statuses that are not None, in the
\* order as_completed yields them
RECURSIVE Collected(_)
Collected(order) ==
    IF Len(order) = 0 THEN << >>
    ELSE IF tasks[order[1]].status = NoStatus THEN Collected(Tail(order))
    ELSE <<tasks[order[1]].status>> \o Collected(Tail(order))

\* the with block of scan_repos is left once every work item has run:
\* _scan_repos_worker returns the list, or the exception future.result()
\* re-raised ends the worker and, with it, the app
PoolReturn ==
    /\ worker = "running"
    /\ DOMAIN tasks # {}
    /\ \A d \in DOMAIN tasks : tasks[d].phase = "done"
    /\ IF \E d \in DOMAIN tasks : tasks[d].status = Raised
       THEN /\ worker' = "error"
            /\ screen' = "crashed"
       ELSE /\ worker' = "success"
            /\ UNCHANGED screen
    /\ UNCHANGED <<fs, registry, seen, failed, invoked, repos, selected,
                   pending, is_loading, log, results, batch, before, batches,
                   max_workers, tasks, completed>>
    /\ UNCHANGED <<prov, uiVars>>

\* on_worker_state_changed(SUCCESS): _populate_repo_table(worker.result)
PopulateRepoTable ==
    /\ worker = "success"
    /\ all_repos' = _sort_repos(Collected(completed))
    /\ repos' = _apply_filter(all_repos', filter_text)
    /\ awaiting' = FALSE
    /\ failed' = [d \in DOMAIN fs |-> tasks[d].failed]
    /\ seen' = fs
    /\ worker' = "idle"
    /\ is_loading' = FALSE
    /\ UNCHANGED <<fs, registry, invoked, selected, screen, pending, log,
                   results, batch, before, batches, max_workers, tasks,
                   completed>>
    /\ UNCHANGED <<prov, active_tab, pr_worker, all_prs, filter_text>>

\* the scan directories of the thread-level model: a repository app with
\* its worktree app-feat, and a second repository App
PoolWorlds ==
    {v \in AppWorlds : /\ v.pointer = "ok"
                       /\ v.heads = {sFeat}
                       /\ v.behind = 0 /\ v.behindTrunk = 0
                       /\ v.tree = "clean"}
        \cup {[v EXCEPT !.name = sAPP] :
                 v \in {u \in AppWorlds : /\ u.name = sApp
                                          /\ u.heads = {sFeat}
                                          /\ u.behind = 0 /\ u.behindTrunk = 0
                                          /\ u.tree = "clean"}}

\* a repository on its trunk, in sync with origin
TrunkWorlds ==
    {u \in AllWorlds : /\ u.name = sApp /\ u.ownerExists
                        /\ u.head = sMain /\ u.heads = {sMain}
                        /\ u.ahead = 0 /\ u.behind = 0
                        /\ u.behindTrunk = 0 /\ u.tree = "clean"}

\* two children on feature branches, or three: app and App on their trunk
\* and the worktree app-feat
PoolDisks ==
    UNION {{disk \in [D -> PoolWorlds] : \A d \in D : disk[d].name = d} :
              D \in {{sApp, sAppFeat}, {sAPP, sApp}}}
        \cup {[d \in {sAPP, sApp, sAppFeat} |->
                  IF d = sAppFeat THEN v ELSE [u EXCEPT !.name = d]] :
                 u \in TrunkWorlds,
                 v \in {x \in PoolWorlds : x.name = sAppFeat /\ x.ahead = 0}}

InitPool ==
    /\ \E disk \in PoolDisks, W \in 1..MaxWorkers : InitWith(disk, W)
    /\ prov = NoProv

\* the steps of the threads of one scan_repos call
PoolThreads ==
    \/ PoolSubmit
    \/ \E d \in DOMAIN fs : TaskStart(d)
    \/ \E d \in DOMAIN fs : TaskBranch(d)
    \/ \E d \in DOMAIN fs : TaskFetch(d)
    \/ \E d \in DOMAIN fs : TaskRest(d)
    \/ PoolReturn

NextPool ==
    \/ PoolSubmit
    \/ \E d \in DOMAIN fs : TaskStart(d)
    \/ \E d \in DOMAIN fs : TaskBranch(d)
    \/ \E d \in DOMAIN fs : TaskFetch(d)
    \/ \E d \in DOMAIN fs : TaskRest(d)
    \/ PoolReturn
    \/ PopulateRepoTable

SpecPool == InitPool /\ [][NextPool]_vars

\* the interpreter runs a thread that can take a step, and every gateway
\* call returns (run_git and the gh call pass timeout=30)
SpecPoolFair == SpecPool /\ WF_vars(PoolThreads)

\* ------------------------------------------- the provisioning procedures
\* the repository a worktree is created from
ProvRepo == [name |-> sApp, path |-> sApp]

\* the head branch gh pr view reports for the pull request
PrHeadRef == sFeat

\* the application variables, which provisioning leaves alone
appVars == <<fs, registry, seen, failed, invoked, repos, selected, screen,
             pending, worker, is_loading, log, results, batch, before,
             batches>>

\* create_branch_worktree(repo, branch_name)
CreateBranchWorktree ==
    /\ prov.op = "create_branch"
    /\ prov.state = "idle"
    /\ \E out \in CreateOutcomes :
          prov' = [prov EXCEPT
                      !.state = "done",
                      !.result = create_branch_worktree(ProvRepo,
                                    prov.req.text, prov.env, out)]
    /\ UNCHANGED <<appVars, poolVars, uiVars>>

\* create_speckit_worktree(repo, description, scan_dir)
CreateSpeckitWorktree ==
    /\ prov.op = "speckit"
    /\ prov.state = "idle"
    /\ \E out \in SpeckitOutcomes :
          prov' = [prov EXCEPT
                      !.state = "done",
                      !.result = create_speckit_worktree(ProvRepo,
                                    prov.req.text, prov.env, out)]
    /\ UNCHANGED <<appVars, poolVars, uiVars>>

\* checkout_pr_to_worktree(pr, scan_dir)
CheckoutPrToWorktree ==
    /\ prov.op = "checkout"
    /\ prov.state = "idle"
    /\ \E out \in CheckoutOutcomes :
          prov' = [prov EXCEPT
                      !.state = "done",
                      !.result = checkout_pr_to_worktree(prov.req.pr,
                                    PrHeadRef, prov.env, out)]
    /\ UNCHANGED <<appVars, poolVars, uiVars>>

\* the branch names, descriptions and pull requests asked for
BranchNamesAsked == {sEmpty, sSpace, sFeat, sXFeat}
DescriptionsAsked ==
    {sEmpty, sSpace, sOAuthLogin, sAuthNow, sToBe, sAI, sSixWords}
PullRequests ==
    [local_status : {"Checked out", "Not cloned", "Available", "Unknown"},
     branch : {sEmpty, sFeat, sXFeat},
     repo_name : {sApp}, repo_full_name : {sOrgApp},
     local_path : {sEmpty, sApp}]

\* the numbered branches of the repository: each is absent, a local branch,
\* checked out in a linked worktree, or a head of origin
NumberedBranches ==
    {{<<sMain, "current">>} \cup {<<n, k[n]>> : n \in {m \in DOMAIN k : k[m] # "absent"}} :
        k \in [{s041x, s042oauth, s044oauth} ->
                  {"absent", "local", "worktree", "remote"}]}

ProvInits ==
    {[op |-> "create_branch", state |-> "idle",
      req |-> [text |-> t, pr |-> << >>],
      env |-> [branches |-> B, paths |-> {sApp} \cup P, specs |-> {}],
      result |-> NoResult] :
        t \in BranchNamesAsked,
        B \in SUBSET {<<sFeat, "local">>, <<sFeat, "remote">>,
                      <<sXFeat, "remote">>},
        P \in SUBSET {sAppFeat}}
    \cup
    {[op |-> "speckit", state |-> "idle",
      req |-> [text |-> t, pr |-> << >>],
      env |-> [branches |-> B, paths |-> {sApp} \cup P, specs |-> S],
      result |-> NoResult] :
        t \in DescriptionsAsked,
        B \in NumberedBranches,
        P \in SUBSET {sApp \o <<"-">> \o s044oauth},
        S \in SUBSET {s043y}}
    \cup
    {[op |-> "checkout", state |-> "idle",
      req |-> [text |-> sEmpty, pr |-> pr],
      env |-> [branches |-> B, paths |-> P, specs |-> {}],
      result |-> NoResult] :
        pr \in PullRequests,
        B \in SUBSET {<<sFeat, "remote">>, <<sXFeat, "remote">>},
        P \in SUBSET {sApp, sAppFeat}}

InitProvision ==
    /\ InitWith(<< >>, DefaultMaxWorkers)
    /\ prov \in ProvInits

NextProvision ==
    \/ CreateBranchWorktree
    \/ CreateSpeckitWorktree
    \/ CheckoutPrToWorktree

SpecProvision == InitProvision /\ [][NextProvision]_vars

\* ------------------------------------------ provisioning, then a rescan
\* the branches create_branch_worktree finds in a source repository whose
\* world record is w, with the further local branches L
EnvOf(disk, w, L) ==
    [branches |-> {<<w.head, "current">>}
                    \cup {<<b, "local">> : b \in L \ {w.head}}
                    \cup {<<h, "remote">> : h \in w.heads},
     paths |-> DOMAIN disk,
     specs |-> {}]

\* what git worktree add -b <branch> <path> leaves at <path> beside the
\* source repository src: a pointer file into src's metadata and the new
\* branch checked out at src's HEAD commit, with nothing to commit
NewWorktree(src, branch, path) ==
    [name |-> path, gitFile |-> TRUE, pointer |-> "ok",
     owner |-> src.owner, ownerExists |-> TRUE,
     head |-> branch, heads |-> src.heads,
     ahead |-> 0, behind |-> 0,
     behindTrunk |-> IF branch \in {sMain, sDev, sMaster} THEN 0
                     ELSE src.behindTrunk,
     tree |-> "clean", rebasing |-> FALSE]

\* create_branch_worktree(repo, branch_name) on the repository in sApp
CreateBranchWorktreeOnDisk ==
    /\ prov.op = "create_branch"
    /\ prov.state = "idle"
    /\ screen # "crashed"
    /\ \E out \in CreateOutcomes :
          LET res == create_branch_worktree(ProvRepo, prov.req.text,
                                            prov.env, out)
              path == ProvRepo.name \o <<"-">>
                        \o sanitize_branch_for_path(res.branch_name)
          IN  /\ prov' = [prov EXCEPT !.state = "done", !.result = res]
              /\ fs' = IF res.ok
                       THEN [d \in DOMAIN fs \cup {path} |->
                               IF d = path
                               THEN NewWorktree(fs[sApp], res.branch_name, path)
                               ELSE fs[d]]
                       ELSE fs
              /\ registry' = IF res.ok THEN registry \cup {path} ELSE registry
    /\ UNCHANGED <<seen, failed, invoked, repos, selected, screen, pending,
                   worker, is_loading, log, results, batch, before, batches>>
    /\ UNCHANGED <<poolVars, uiVars>>

\* the source repositories a worktree is created from
SourceWorlds ==
    {w \in AllWorlds :
        /\ w.name = sApp
        /\ w.head \in {sMain, sFeat}
        /\ w.heads \in {{}, {sMain}, {sFeat, sMain}}
        /\ w.ahead = 0 /\ w.behind = 0 /\ w.behindTrunk <= 1
        /\ w.tree \in {"clean", "modified"}}

\* a dashboard over a directory with the one repository sApp, and a call of
\* create_branch_worktree on it
InitRoundTrip ==
    \E w \in SourceWorlds, t \in BranchNamesAsked \cup {sPaddedFeat},
       L \in SUBSET {sFeat} :
        /\ InitWith([d \in {sApp} |-> w], DefaultMaxWorkers)
        /\ prov = [op |-> "create_branch", state |-> "idle",
                   req |-> [text |-> t, pr |-> << >>],
                   env |-> EnvOf([d \in {sApp} |-> w], w, L),
                   result |-> NoResult]

NextRoundTrip ==
    \/ CreateBranchWorktreeOnDisk
    \/ ScanDone
    \/ Refresh

SpecRoundTrip == InitRoundTrip /\ [][NextRoundTrip]_vars

\* ------------------------------------------------ tabs and the PR worker
TabNames == {"repos", "prs", "config"}

\* refresh_prs: show_loading(True); run_worker(_scan_prs_worker,
\* exclusive=True)
refresh_prs_started ==
    /\ is_loading' = TRUE
    /\ pr_worker' = "running"
    /\ worker' = Cancelled(worker)

\* on_tabbed_content_tab_activated: the filter is emptied, and the table of
\* the new tab redrawn if the filter bar was open and nothing is loading;
\* the PRs tab starts a pull-request scan while it has no pull requests
TabActivated(tab) ==
    /\ screen = "main"
    /\ tab # active_tab
    /\ active_tab' = tab
    /\ filter_text' = sEmpty
    /\ repos' = IF Len(filter_text) > 0 /\ ~is_loading /\ tab = "repos"
                THEN all_repos ELSE repos
    /\ IF tab = "prs" /\ Len(all_prs) = 0
       THEN refresh_prs_started
       ELSE UNCHANGED <<is_loading, pr_worker, worker>>
    /\ UNCHANGED <<fs, registry, seen, failed, invoked, selected, screen,
                   pending, log, results, batch, before, batches>>
    /\ UNCHANGED <<poolVars, prov, all_prs, all_repos, awaiting>>

\* action_refresh on another tab than repos
RefreshPrs ==
    /\ screen = "main"
    /\ active_tab # "repos"
    /\ refresh_prs_started
    /\ UNCHANGED <<fs, registry, seen, failed, invoked, repos, selected, screen,
                   pending, log, results, batch, before, batches>>
    /\ UNCHANGED <<poolVars, prov, active_tab, all_prs, filter_text, all_repos,
                   awaiting>>

\* the pull requests gh search prs can return
PrResults == {<< >>, <<1>>}

\* on_worker_state_changed(SUCCESS) for _scan_prs_worker:
\* _populate_pr_table(prs), which ends with show_loading(False)
PrScanDone ==
    /\ pr_worker = "running"
    /\ screen \notin {"crashed", "results"}
    /\ \E prs \in PrResults : all_prs' = prs
    /\ pr_worker' = "idle"
    /\ is_loading' = FALSE
    /\ UNCHANGED <<fs, registry, seen, failed, invoked, repos, selected, screen,
                   pending, worker, log, results, batch, before, batches>>
    /\ UNCHANGED <<poolVars, prov, active_tab, filter_text, all_repos, awaiting>>

\* the worlds the tabs are run over
TabWorlds ==
    {w \in AppWorlds :
        /\ w.name = sApp
        /\ w.heads \in {{sFeat}, {sFeat, sMain}}
        /\ w.ahead = 0
        /\ w.tree = "clean"}

InitTabs == \E w \in TabWorlds : InitOver([d \in {w.name} |-> w])

NextTabs ==
    \/ ScanDone
    \/ PrScanDone
    \/ Refresh
    \/ RefreshPrs
    \/ \E tab \in TabNames : TabActivated(tab)
    \/ \E i \in 1..Len(repos) : ToggleSelect(i)
    \/ \E a \in ActionNames : ExecuteAction(a)
    \/ Cancel
    \/ Confirm
    \/ DismissResults

SpecTabs == InitTabs /\ [][NextTabs]_vars

\* a worker thread that runs returns, and the user closes the results
SpecTabsFair ==
    /\ SpecTabs
    /\ WF_vars(ScanDone)
    /\ WF_vars(PrScanDone)
    /\ WF_vars(DismissResults)

\* ------------------------------------------------ the filter and select-all
\* action_select_all on the repos tab, the focus being on the table
SelectAll ==
    /\ screen = "main"
    /\ active_tab = "repos"
    /\ selected' = IF Cardinality(selected) = Len(repos)
                   THEN {}
                   ELSE {repos[i].name : i \in 1..Len(repos)}
    /\ UNCHANGED <<fs, registry, seen, failed, invoked, repos, screen, pending,
                   worker, is_loading, log, results, batch, before, batches>>
    /\ UNCHANGED <<poolVars, prov, uiVars>>

\* the texts typed into the filter input
FilterTexts == {sFeat, sMain, <<"F", "E", "A", "T">>}

\* action_start_filter, on_input_changed with the value typed and
\* on_input_submitted, which gives the focus back to the table: the text is
\* taken and the table redrawn only while nothing is loading
SetFilter(text) ==
    /\ screen = "main"
    /\ active_tab = "repos"
    /\ ~is_loading
    /\ filter_text' = text
    /\ repos' = _apply_filter(all_repos, text)
    /\ UNCHANGED <<fs, registry, seen, failed, invoked, selected, screen,
                   pending, worker, is_loading, log, results, batch, before,
                   batches>>
    /\ UNCHANGED <<poolVars, prov, active_tab, pr_worker, all_prs, all_repos,
                   awaiting>>

\* action_clear_filter with the filter bar open: the text is emptied, and
\* the table redrawn unless a scan is loading
ClearFilter ==
    /\ screen = "main"
    /\ active_tab = "repos"
    /\ Len(filter_text) > 0
    /\ filter_text' = sEmpty
    /\ repos' = IF is_loading THEN repos ELSE _apply_filter(all_repos, sEmpty)
    /\ UNCHANGED <<fs, registry, seen, failed, invoked, selected, screen,
                   pending, worker, is_loading, log, results, batch, before,
                   batches>>
    /\ UNCHANGED <<poolVars, prov, active_tab, pr_worker, all_prs, all_repos,
                   awaiting>>

\* the dashboard over a plain repository on main or on the feature branch
\* and a worktree of it
InitFilter ==
    \E w1 \in BatchWorlds, w2 \in BatchWorlds :
        /\ w1.name = sApp /\ ~w1.gitFile
        /\ w2.name = sAppFeat /\ w2.gitFile /\ w2.pointer = "ok"
        /\ w1.tree = "clean" /\ w2.tree = "clean"
        /\ w1.ahead = 0 /\ w2.ahead = 0 /\ w1.behind = 0 /\ w2.behind = 0
        /\ InitOver([d \in {sApp, sAppFeat} |-> IF d = sApp THEN w1 ELSE w2])

NextFilter ==
    \/ ScanDoneClean
    \/ Refresh
    \/ \E i \in 1..Len(repos) : ToggleSelect(i)
    \/ SelectAll
    \/ \E text \in FilterTexts : SetFilter(text)
    \/ ClearFilter

SpecFilter == InitFilter /\ [][NextFilter]_vars

\* ------------------------------------------- speckit worktrees in a row
\* create_speckit_worktree(repo, description, scan_dir) on the directories
\* the calls before it left: a success leaves the new branch checked out in
\* the new worktree and the folder specs/<branch> inside it
CreateSpeckitWorktreeOnDisk ==
    /\ prov.op = "speckit"
    /\ Cardinality({b \in prov.env.branches : b[2] = "worktree"}) < MaxCreations
    /\ \E t \in {sOAuthLogin, sToBe}, out \in SpeckitOutcomes :
          LET res == create_speckit_worktree(ProvRepo, t, prov.env, out)
          IN  prov' = [prov EXCEPT
                          !.state = "done",
                          !.req = [text |-> t, pr |-> << >>],
                          !.result = res,
                          !.env = IF res.ok
                                  THEN [branches |-> @.branches \cup
                                           {<<res.branch_name, "worktree">>},
                                        paths |-> res.paths,
                                        specs |-> @.specs \cup {res.branch_name}]
                                  ELSE @]
    /\ UNCHANGED <<appVars, poolVars, uiVars>>

\* a repository on main with or without a numbered head of origin, beside
\* directories that hold no spec folder, a low one or one numbered 998
InitSpeckit ==
    /\ InitWith(<< >>, DefaultMaxWorkers)
    /\ \E B \in SUBSET {<<s042oauth, "remote">>}, S \in SUBSET {s043y, s998x} :
          prov = [op |-> "speckit", state |-> "idle",
                  req |-> [text |-> sEmpty, pr |-> << >>],
                  env |-> [branches |-> {<<sMain, "current">>} \cup B,
                           paths |-> {sApp}, specs |-> S],
                  result |-> NoResult]

NextSpeckit == CreateSpeckitWorktreeOnDisk

SpecSpeckit == InitSpeckit /\ [][NextSpeckit]_vars

\* ================================================================ claims
\* the i-th displayed repository and the world record its scan inspected
Scanned(r) == seen[r.name]

IsSyncedForm(st) == st = sSynced
IsAheadForm(st) == \E n \in 1..MaxCount : st = FmtAhead(n)
IsBehindForm(st) == \E n \in 1..MaxCount : st = FmtBehind(n)
IsDivergedForm(st) == \E a \in 1..MaxCount, b \in 1..MaxCount : st = FmtDiverged(a, b)
IsBehindTrunkForm(st, mb) == \E n \in 0..MaxCount : st = FmtBehindTrunk(mb, n)
Protected(r) == r.branch \in {r.main_branch, sMain, sDev, sMaster}
Displayed == {repos[i] : i \in 1..Len(repos)}

\* C1: for a repository of kind Worktree, delete_local_folder removes the
\* directory with shutil.rmtree only after a git worktree remove for that
\* directory has succeeded in the owning repository.
C1_RmtreeOnlyAfterDetach ==
    \A i \in 1..Len(log) :
        (log[i].cmd = "rmtree" /\ log[i].ok /\ log[i].kind = sWorktree)
        => \E j \in 1..(i - 1) : /\ log[j].cmd = "worktree remove"
                                 /\ log[j].dir = log[i].dir
                                 /\ log[j].ok

\* C2: the batch executor invokes delete_local_folder only on a repository
\* whose scan saw a remote branch of the same name, a local tip equal to the
\* remote tip (ahead and behind both really zero) and a tree with no changes.
C2_DeleteOnlyWhenReallySynced ==
    batch.action = "delete_local" =>
        \A w \in invoked : /\ w.head \in w.heads
                           /\ w.ahead = 0 /\ w.behind = 0
                           /\ w.tree = "clean"

\* C3: a repository with has_changes = true is never eligible for pull,
\* rebase or delete-local, and is eligible for discard.
C3_DirtyNeverPullRebaseDelete ==
    \A r \in Displayed :
        r.has_changes => /\ ~can_pull(r)
                         /\ ~can_rebase(r)
                         /\ ~can_delete_local(r)
                         /\ can_discard(r)

\* a dirty repository that has a remote, is in sync and is on a feature branch
C3_Witness ==
    \E r \in Displayed : /\ r.has_changes
                         /\ r.remote_exists
                         /\ r.sync_status = sSynced
                         /\ ~Protected(r)

\* C4: sync_status is "-" exactly when remote_exists is false, and with a
\* remote it is exactly one of Synced, Ahead(n), Behind(n), Diverged(a,b).
C4_SyncUnknownIffNoRemote ==
    \A r \in Displayed :
        /\ (r.sync_status = sDash) <=> ~r.remote_exists
        /\ r.remote_exists =>
              Cardinality({k \in 1..4 :
                  \/ k = 1 /\ IsSyncedForm(r.sync_status)
                  \/ k = 2 /\ IsAheadForm(r.sync_status)
                  \/ k = 3 /\ IsBehindForm(r.sync_status)
                  \/ k = 4 /\ IsDivergedForm(r.sync_status)}) = 1

\* a repository with a remote whose counts both came out zero although the
\* tips were not found equal
C4_Witness ==
    \E r \in Displayed : /\ r.remote_exists
                         /\ r.sync_status = sSynced
                         /\ (Scanned(r).ahead > 0 \/ Scanned(r).behind > 0)

\* C5: rebase_status is "-" exactly when the branch is main_branch, main,
\* dev or master, and then can_rebase is false with reason "on main branch".
C5_RebaseUnknownIffOnMain ==
    \A r \in Displayed :
        /\ (r.rebase_status = sDash) <=> Protected(r)
        /\ Protected(r) => /\ ~can_rebase(r)
                           /\ why_not_rebase(r) = <<"on main branch">>

\* a repository on master whose trunk is main
C5_Witness ==
    \E r \in Displayed : /\ r.branch = sMaster
                         /\ r.main_branch = sMain
                         /\ r.rebase_status = sDash

\* C6: remote_exists is true exactly when origin has a branch whose name is
\* the current branch name and the remote-head query succeeded.
C6_RemoteExistsIffExactHead ==
    \A r \in Displayed :
        r.remote_exists <=> (/\ r.branch \in Scanned(r).heads
                             /\ "lsremote" \notin failed[r.name])

\* C7: with a remote, sync_status is Synced for equal tips and otherwise
\* Diverged / Ahead / Behind carrying the true numbers of commits only on
\* the local tip and only on the remote tip.
C7_SyncStatusReportsTrueCounts ==
    \A r \in Displayed :
        r.remote_exists =>
            LET a == Scanned(r).ahead
                b == Scanned(r).behind
            IN  r.sync_status = IF a = 0 /\ b = 0 THEN sSynced
                                ELSE IF a > 0 /\ b > 0 THEN FmtDiverged(a, b)
                                ELSE IF a > 0 THEN FmtAhead(a)
                                ELSE FmtBehind(b)

\* C8: can_pull is true exactly when the remote exists, sync_status is
\* Behind(n) and there are no local changes.
C8_CanPullIffBehindAndClean ==
    \A r \in Displayed :
        can_pull(r) <=> (/\ r.remote_exists
                         /\ IsBehindForm(r.sync_status)
                         /\ ~r.has_changes)

\* a repository that can be pulled
C8_Witness ==
    \E r \in Displayed : can_pull(r) /\ Scanned(r).behind > 0

\* C9: when pull is not eligible the reason is "no remote branch" without a
\* remote, "already synced" for Synced or Ahead, "diverged (use force push)"
\* for Diverged, and "has uncommitted changes" for a dirty Behind.
C9_WhyNotPullReasons ==
    \A r \in Displayed :
        ~can_pull(r) =>
            why_not_pull(r) =
                IF ~r.remote_exists THEN <<"no remote branch">>
                ELSE IF IsSyncedForm(r.sync_status) \/ IsAheadForm(r.sync_status)
                     THEN <<"already synced">>
                ELSE IF IsDivergedForm(r.sync_status)
                     THEN <<"diverged (use force push)">>
                ELSE <<"has uncommitted changes">>

\* C10: can_rebase is true exactly when the branch is not protected, there
\* are no local changes and either sync_status is Behind(n) or it is Synced
\* or "-" while rebase_status is BehindTrunk; otherwise the reason is the
\* first of "on main branch", "has uncommitted changes", "already rebased".
C10_CanRebaseIff ==
    \A r \in Displayed :
        LET needs == \/ IsBehindForm(r.sync_status)
                     \/ /\ r.sync_status \in {sSynced, sDash}
                        /\ IsBehindTrunkForm(r.rebase_status, r.main_branch)
            eligible == ~Protected(r) /\ ~r.has_changes /\ needs
        IN  /\ can_rebase(r) <=> eligible
            /\ ~eligible =>
                  why_not_rebase(r) =
                      IF Protected(r) THEN <<"on main branch">>
                      ELSE IF r.has_changes THEN <<"has uncommitted changes">>
                      ELSE <<"already rebased">>

\* a repository without a remote branch that is eligible through its trunk
C10_Witness ==
    \E r \in Displayed : /\ can_rebase(r)
                         /\ r.branch = sFeat
                         /\ r.sync_status = sDash
                         /\ Scanned(r).behindTrunk > 0


\* the elements of a sequence
Range(xs) == {xs[i] : i \in 1..Len(xs)}

LiteralTrunks == {sMain, sMaster, sDev}

ForcingPushes == {"push --force origin", "push -f origin",
                  "push --force-with-lease origin"}

\* C12: the only push that can overwrite remote history is issued by
\* force_push and carries the lease option, naming the branch of the
\* repository it runs in; no procedure issues a plain forced push.
C12_ForcedPushOnlyWithLease ==
    \A i \in 1..Len(log) :
        log[i].cmd \in ForcingPushes
        => /\ log[i].cmd = "push --force-with-lease origin"
           /\ batch.action = "force_push"
           /\ \E r \in Range(batch.ranOn) : /\ r.path = log[i].dir
                                            /\ r.branch = log[i].arg

\* a confirmed force-push batch whose push went through
C12_Witness ==
    /\ screen = "results"
    /\ batch.action = "force_push"
    /\ Len(log) = 1
    /\ log[1].cmd = "push --force-with-lease origin"
    /\ log[1].ok
    /\ results = <<<<batch.ranOn[1].name, TRUE, "Force pushed successfully">>>>

\* the repositories of a skipped list
SkippedRepos(sk) == {sk[i][1] : i \in 1..Len(sk)}

\* eligible and skipped split the selection: every selected repository is in
\* exactly one of them, the eligible ones pass check_fn, the others carry
\* reason_fn's reason
SplitsSelection(a, sel, el, sk) ==
    /\ Len(el) + Len(sk) = Len(sel)
    /\ Range(el) \cup SkippedRepos(sk) = Range(sel)
    /\ Range(el) \cap SkippedRepos(sk) = {}
    /\ \A r \in Range(el) : check_fn(a, r)
    /\ \A i \in 1..Len(sk) : /\ ~check_fn(a, sk[i][1])
                             /\ sk[i][2] = reason_fn(a, sk[i][1])

\* C13: execute_action splits the selection into eligible and skipped so
\* that each selected repository is in exactly one of the two; the mutating
\* procedure is invoked only on eligible repositories, never on a skipped
\* one, and on none when the user does not confirm.
C13_OnlyEligibleInvoked ==
    /\ [](/\ pending.action # "none"
             => SplitsSelection(pending.action, pending.selected,
                                pending.eligible, pending.skipped)
          /\ batch.action # "none"
             => /\ Range(batch.called) \subseteq {r.name : r \in Range(batch.ranOn)}
                /\ \A i \in 1..Len(log) :
                      /\ log[i].dir \in {r.path : r \in Range(batch.ranOn)}
                      /\ log[i].dir \notin {r.path : r \in SkippedRepos(batch.skipped)})
    /\ [][(pending.action # "none" /\ screen' = "main")
          => UNCHANGED <<fs, registry, log, results, batch>>]_vars

\* a confirmed batch over a selection of two that ran on one and skipped one
C13_Witness ==
    /\ screen = "results"
    /\ Len(batch.ranOn) = 1
    /\ Len(batch.skipped) = 1
    /\ batch.called = <<batch.ranOn[1].name>>
    /\ Len(log) > 0

\* C14: in a confirmed batch over eligible repositories r1..rk the mutating
\* procedure is attempted on every ri exactly once and the result list has
\* exactly one (name, success, message) entry per ri, whatever happens to
\* the procedure on any other rj.
C14_EveryEligibleAttemptedAndReported ==
    batch.action # "none"
    => /\ batch.called = [i \in 1..Len(batch.ranOn) |-> batch.ranOn[i].name]
       /\ Len(results) = Len(batch.ranOn)
       /\ \A i \in 1..Len(results) : results[i][1] = batch.ranOn[i].name

\* the commands the last batch issued in directory d, in order
CmdsIn(d) == SelectSeq(log, LAMBDA c : c.dir = d)

\* the entry of the result list for the i-th repository of the batch
ResultOf(i) == results[i]

\* C15: reset_to_remote issues fetch, hard reset to origin/<branch>, clean
\* of untracked files in that order; a step is issued only if every earlier
\* step succeeded, the first failing step's message is the result, and
\* success is reported only when all three succeeded.
C15_ResetStopsAtFirstFailure ==
    batch.action = "reset_to_remote"
    => \A i \in 1..Len(batch.ranOn) :
          LET r == batch.ranOn[i]
              cs == CmdsIn(r.path)
              n == Len(cs)
              order == <<"fetch origin", "reset --hard", "clean -fd">>
              failure == <<"Fetch failed", "Reset failed", "Clean failed">>
          IN  /\ n \in 1..3
              /\ \A k \in 1..n : cs[k].cmd = order[k]
              /\ n >= 2 => cs[2].arg = <<"origin/">> \o r.branch
              /\ \A k \in 1..(n - 1) : cs[k].ok
              /\ n < 3 => ~cs[n].ok
              /\ ResultOf(i) = <<r.name, cs[n].ok,
                                 IF cs[n].ok THEN "Reset to origin"
                                 ELSE failure[n]>>

\* a reset whose fetch went through and whose hard reset failed: no clean
C15_Witness ==
    /\ screen = "results"
    /\ batch.action = "reset_to_remote"
    /\ Len(log) = 2
    /\ log[1].ok /\ ~log[2].ok
    /\ results[1][3] = "Reset failed"

RebaseSteps == {"pull --rebase origin", "rebase"}

\* in the commands cs of one invocation: a failed pull-with-rebase or rebase
\* is followed at once by rebase --abort, and rebase --abort follows nothing
\* else
AbortsExactlyOnFailure(cs) ==
    /\ \A k \in 1..Len(cs) :
          (cs[k].cmd \in RebaseSteps /\ ~cs[k].ok)
          => k < Len(cs) /\ cs[k + 1].cmd = "rebase --abort"
    /\ \A k \in 1..Len(cs) :
          cs[k].cmd = "rebase --abort"
          => k > 1 /\ cs[k - 1].cmd \in RebaseSteps /\ ~cs[k - 1].ok

\* the directories in which the last batch left a rebase in progress that
\* was not there when the batch began
LeftRebasing ==
    {d \in DOMAIN fs \cap DOMAIN before : fs[d].rebasing /\ ~before[d].rebasing}

\* C16 as stated: whenever the pull-with-rebase or the rebase command fails a
\* rebase abort is issued before the failure is returned, none is issued on
\* the success path, and so neither procedure returns leaving a rebase in
\* progress that it started.
C16_NoRebaseLeftInProgress ==
    batch.action \in {"pull", "rebase"}
    => /\ \A i \in 1..Len(batch.ranOn) :
             LET cs == CmdsIn(batch.ranOn[i].path)
             IN  /\ AbortsExactlyOnFailure(cs)
                 /\ ResultOf(i)[2] <=> \A k \in 1..Len(cs) :
                                         cs[k].cmd \in RebaseSteps => cs[k].ok
       /\ LeftRebasing = {}

\* C16 amended: the rebase abort is issued exactly on the failure path, and a
\* rebase the procedure started stays in progress only where that rebase
\* abort itself failed.
C16_RebaseLeftOnlyWhenAbortFailed ==
    batch.action \in {"pull", "rebase"}
    => /\ \A i \in 1..Len(batch.ranOn) :
             LET cs == CmdsIn(batch.ranOn[i].path)
             IN  /\ AbortsExactlyOnFailure(cs)
                 /\ ResultOf(i)[2] <=> \A k \in 1..Len(cs) :
                                         cs[k].cmd \in RebaseSteps => cs[k].ok
       /\ \A d \in LeftRebasing :
             \E k \in 1..Len(CmdsIn(d)) : /\ CmdsIn(d)[k].cmd = "rebase --abort"
                                          /\ ~CmdsIn(d)[k].ok

\* a pull whose pull-with-rebase failed and whose rebase abort went through
C16_Witness ==
    /\ screen = "results"
    /\ batch.action = "pull"
    /\ Len(log) = 3
    /\ log[2].cmd = "pull --rebase origin" /\ ~log[2].ok
    /\ log[3].cmd = "rebase --abort" /\ log[3].ok
    /\ results[1][2] = FALSE
    /\ LeftRebasing = {}

\* C17: rebase_on_main first fetches, then issues pull-with-rebase against
\* origin/<branch> if and only if the sync status is Behind and not Diverged,
\* and otherwise a rebase onto origin/<main_branch>; exactly one of the two
\* per invocation, and the one issued matches the reason the repository was
\* eligible: behind its remote -> pull, behind the trunk -> rebase onto it.
C17_RebaseCommandMatchesReason ==
    batch.action = "rebase"
    => \A i \in 1..Len(batch.ranOn) :
          LET r == batch.ranOn[i]
              cs == CmdsIn(r.path)
              behindRemote == IsBehindForm(r.sync_status)
              behindTrunk == /\ r.sync_status \in {sSynced, sDash}
                             /\ IsBehindTrunkForm(r.rebase_status, r.main_branch)
          IN  /\ Len(cs) >= 2
              /\ cs[1].cmd = "fetch origin"
              /\ Cardinality({k \in 1..Len(cs) : cs[k].cmd \in RebaseSteps}) = 1
              /\ IF behindRemote
                 THEN cs[2].cmd = "pull --rebase origin" /\ cs[2].arg = r.branch
                 ELSE /\ behindTrunk
                      /\ cs[2].cmd = "rebase"
                      /\ cs[2].arg = <<"origin/">> \o r.main_branch

\* a rebase batch on a repository in sync with its remote and behind the
\* trunk: fetch, then rebase onto origin/main
C17_Witness ==
    /\ screen = "results"
    /\ batch.action = "rebase"
    /\ batch.ranOn[1].sync_status = sSynced
    /\ Len(log) = 2
    /\ log[2].cmd = "rebase" /\ log[2].arg = <<"origin/">> \o sMain
    /\ log[2].ok

\* C18: discard_changes reports success if and only if both of its sub-steps
\* (revert of tracked changes, removal of untracked files and directories)
\* succeeded, and failure when either failed.
C18_DiscardNeedsBothSteps ==
    batch.action = "discard"
    => \A i \in 1..Len(batch.ranOn) :
          LET cs == CmdsIn(batch.ranOn[i].path)
              revert == {k \in 1..Len(cs) : cs[k].cmd = "checkout -- ."}
              remove == {k \in 1..Len(cs) : cs[k].cmd = "clean -fd"}
              both == /\ \A k \in revert \cup remove : cs[k].ok
                      /\ revert # {} /\ remove # {}
          IN  /\ ResultOf(i)[2] <=> both
              /\ ResultOf(i)[3] = IF both THEN "Changes discarded"
                                  ELSE "Discard failed"

\* a discard whose revert went through and whose removal failed
C18_Witness ==
    /\ screen = "results"
    /\ batch.action = "discard"
    /\ Len(log) = 2
    /\ log[1].cmd = "checkout -- ." /\ log[1].ok
    /\ log[2].cmd = "clean -fd" /\ ~log[2].ok
    /\ results[1][2] = FALSE

MultiStepActions == {"pull", "rebase", "discard", "reset_to_remote"}

\* C19 as stated: within one repository's multi-step procedure a later step
\* is issued only after the earlier step it depends on has succeeded: no
\* pull-with-rebase or rebase after a failed fetch, no removal of untracked
\* files after a failed revert (or a failed fetch or reset).
C19_NoStepAfterFailedStep ==
    batch.action \in MultiStepActions
    => \A i \in 1..Len(batch.ranOn) :
          LET cs == CmdsIn(batch.ranOn[i].path)
          IN  \A j \in 1..Len(cs), k \in 1..Len(cs) :
                 (j < k /\ ~cs[j].ok)
                 => /\ ~(cs[j].cmd = "fetch origin" /\ cs[k].cmd \in RebaseSteps)
                    /\ ~(cs[j].cmd = "checkout -- ." /\ cs[k].cmd = "clean -fd")
                    /\ batch.action # "reset_to_remote"

\* C19 amended: the steps of one invocation come one after the other in the
\* procedure's fixed order; reset_to_remote issues no step after a failed
\* one, while pull_rebase and rebase_on_main issue their pull or rebase
\* whatever the fetch returned and discard_changes issues the removal
\* whatever the revert returned.
C19_StepsInProcedureOrder ==
    batch.action \in MultiStepActions
    => \A i \in 1..Len(batch.ranOn) :
          LET cs == CmdsIn(batch.ranOn[i].path)
              n == Len(cs)
          IN  CASE batch.action \in {"pull", "rebase"} ->
                     /\ n \in 2..3
                     /\ cs[1].cmd = "fetch origin"
                     /\ cs[2].cmd \in RebaseSteps
                     /\ n = 3 <=> ~cs[2].ok
                     /\ n = 3 => cs[3].cmd = "rebase --abort"
                [] batch.action = "discard" ->
                     /\ n = 2
                     /\ cs[1].cmd = "checkout -- ."
                     /\ cs[2].cmd = "clean -fd"
                [] batch.action = "reset_to_remote" ->
                     /\ n \in 1..3
                     /\ \A k \in 1..n :
                           cs[k].cmd = <<"fetch origin", "reset --hard",
                                         "clean -fd">>[k]
                     /\ \A k \in 1..(n - 1) : cs[k].ok
                     /\ n < 3 => ~cs[n].ok

\* a pull whose fetch failed and whose pull-with-rebase was issued, and
\* went through, all the same
C19_Witness ==
    /\ screen = "results"
    /\ batch.action = "pull"
    /\ Len(log) = 2
    /\ log[1].cmd = "fetch origin" /\ ~log[1].ok
    /\ log[2].cmd = "pull --rebase origin" /\ log[2].ok
    /\ results[1][2] = TRUE

\* C20: eligibility is not carried across a refresh: when a rescan replaces
\* the repository list between the key press that computed the eligible list
\* and the user's confirmation, the mutating procedure runs only on
\* repositories that are eligible by the list on display at confirmation.
C20_RunsOnlyOnCurrentlyEligible ==
    batch.action # "none"
    => \A k \in 1..Len(batch.called) :
          \E r \in Range(batch.shownAt) : /\ r.name = batch.called[k]
                                          /\ check_fn(batch.action, r)

\* the actions execute_action is given dangerous=True for
DestructiveActions == {"force_push", "discard", "reset_to_remote",
                       "delete_local"}

\* C21: the set of selected names persists across re-renders of the table
\* and is empty after the completion of every destructive batch (force-push,
\* discard, reset-to-remote, delete-local) and after clear-selection.
C21_SelectionEmptyAfterDestructiveBatch ==
    /\ []((screen = "results" /\ batch.action \in DestructiveActions)
          => selected = {})
    /\ [][repos' # repos => selected' = selected]_vars
    /\ [][ClearSelection => selected' = {}]_vars

\* how many RepoStatus records of the list on display carry the name d
RecordsOf(d) == Cardinality({i \in 1..Len(repos) : repos[i].name = d})

\* C22: scan_repos returns exactly one record for each candidate directory
\* whose current-branch query succeeded and none for a candidate where it
\* failed, whatever the other version-control and hosting-client calls do
\* (success, failure, timeout, spawn error); no such failure leaves
\* check_repo as an exception or terminates the scan.
C22_OneRecordPerAnsweredBranchQuery ==
    /\ worker # "error"
    /\ worker = "idle" =>
          \A d \in DOMAIN seen :
              RecordsOf(d) = IF "branch" \in failed[d] THEN 0 ELSE 1

\* C26: has_changes is true for every working tree that has a staged or
\* unstaged modification of a tracked file or at least one untracked file
\* that is not ignored, and false only when the tree has none of these.
C26_HasChangesCoversUntracked ==
    \A r \in Displayed :
        /\ Scanned(r).tree # "clean" => r.has_changes
        /\ ~r.has_changes => Scanned(r).tree = "clean"

\* C27: when the status query of a repository fails or times out during
\* inspection, its RepoStatus has has_changes = true and the repository is
\* not eligible for pull, rebase or delete-local in the list of that scan.
C27_FailedStatusQueryIsDirty ==
    \A r \in Displayed :
        "status" \in failed[r.name] => /\ r.has_changes
                                       /\ ~can_pull(r)
                                       /\ ~can_rebase(r)
                                       /\ ~can_delete_local(r)

\* the status query failed on a clean tree that is behind its remote branch:
\* but for has_changes the repository could be pulled
C27_Witness ==
    \E r \in Displayed : /\ "status" \in failed[r.name]
                         /\ Scanned(r).tree = "clean"
                         /\ r.has_changes
                         /\ can_pull([r EXCEPT !.has_changes = FALSE])

\* how often the future of directory d was yielded by as_completed
CompletionsOf(d) ==
    Cardinality({i \in 1..Len(completed) : completed[i] = d})

\* how many records of the list scan_repos returns carry the name d
ReturnedOf(d) ==
    Cardinality({i \in 1..Len(Collected(completed)) :
                    Collected(completed)[i].name = d})

\* the next step of the inspection of d a worker thread is running
TaskStep(d) == TaskBranch(d) \/ TaskFetch(d) \/ TaskRest(d)

\* C23: in scan_repos with N candidates and worker bound W at most W
\* inspections run at the same time and each candidate is inspected exactly
\* once; when every gateway call returns (success, failure or timeout) the
\* scan terminates with every candidate classified (the app exits instead
\* only when an inspection raised), and an inspection under way can take
\* its next step whatever the calls of the other candidates do.
C23_BoundedPoolInspectsEachOnce ==
    /\ [](Cardinality(Active) <= max_workers)
    /\ [](\A d \in DOMAIN tasks :
             CompletionsOf(d) = IF tasks[d].phase = "done" THEN 1 ELSE 0)
    /\ [][\A d \in DOMAIN tasks :
             tasks[d].phase = "done" => tasks'[d] = tasks[d]]_vars
    /\ [](\A d \in Active : ENABLED TaskStep(d))
    /\ [](worker = "success" =>
             \A d \in DOMAIN fs :
                /\ d \in DOMAIN tasks
                /\ tasks[d].phase = "done"
                /\ ReturnedOf(d) = IF "branch" \in tasks[d].failed THEN 0 ELSE 1)
    /\ [](worker = "error" => \E d \in DOMAIN tasks : tasks[d].status = Raised)
    /\ <>(worker # "running")

\* a scan of more candidates than workers has returned; a call of one
\* candidate failed or timed out and another candidate is in the list
C23_Witness ==
    /\ worker = "success"
    /\ Cardinality(DOMAIN fs) > max_workers
    /\ \E d \in DOMAIN tasks, e \in DOMAIN tasks :
          /\ d # e
          /\ tasks[d].failed # {}
          /\ ReturnedOf(e) = 1

\* C24: no two inspections that run concurrently in one scan operate on the
\* same mutable state: the fetch --all of a repository and the fetch --all
\* of a worktree of that repository, both children of the scan directory,
\* are never under way at the same time.
C24_NoConcurrentFetchInOneRepository ==
    \A d \in DOMAIN tasks, e \in DOMAIN tasks :
        (d # e /\ tasks[d].phase = "fetch" /\ tasks[e].phase = "fetch")
            => GitDirOf(fs[d]) # GitDirOf(fs[e])

\* the records rs in the order p of their indices
Permuted(rs, p) == [i \in 1..Len(rs) |-> rs[p[i]]]

\* C25: the list shown after a scan is ordered by (rebase need, sync need,
\* name) and is the same sequence whatever the order in which the
\* inspections completed: any two orders of the same set of records display
\* identical lists.
C25_DisplayIndependentOfCompletionOrder ==
    worker = "idle" =>
        /\ \A i \in 1..Len(repos), j \in 1..Len(repos) :
              i < j => ~KeyLess(sort_key(repos[j]), sort_key(repos[i]))
        /\ \A p \in Orders(1..Len(repos)) :
              _sort_repos(Permuted(repos, p)) = repos

\* the commands of the provisioning procedures that change a repository or
\* the scan directory
MutatingCmds == {"clone ssh", "clone https", "fetch --all", "worktree add -b",
                 "worktree add --track -b", "worktree add"}

\* the messages a request is turned down with for being invalid
ValidationMessages ==
    {"Branch name cannot be empty", "Feature description cannot be empty",
     "Branch already exists", "Remote branch already exists",
     "Path already exists"}

\* the branch the call is to create a worktree for
AskedBranch ==
    CASE prov.op = "create_branch" -> Strip(prov.req.text)
      [] prov.op = "speckit" -> prov.result.branch_name
      [] prov.op = "checkout" -> IF Len(prov.req.pr.branch) = 0 THEN PrHeadRef
                                 ELSE prov.req.pr.branch
      [] OTHER -> sEmpty

\* the path of that worktree
TargetPath == sApp \o <<"-">> \o sanitize_branch_for_path(AskedBranch)

\* the request is one of the invalid requests of the claim: an empty name or
\* description, a branch to create that exists locally or on origin, a
\* worktree path that exists
InvalidRequest ==
    \/ /\ prov.op \in {"create_branch", "speckit"}
       /\ Strip(prov.req.text) = sEmpty
    \/ /\ prov.op \in {"create_branch", "speckit"}
       /\ AskedBranch \in LocalBranches(prov.env) \cup RemoteBranches(prov.env)
    \/ /\ prov.op \in {"create_branch", "speckit"}
       /\ TargetPath \in prov.env.paths
    \/ /\ prov.op = "checkout"
       /\ prov.req.pr.local_status \in {"Not cloned", "Available"}
       /\ Len(prov.req.pr.branch) > 0
       /\ TargetPath \in prov.env.paths

\* C28: in every provisioning operation an invalid request (an empty branch
\* name or description, a branch that exists locally or on the remote, a
\* target worktree path that exists) is rejected with a specific failure
\* message before any mutating command (clone, fetch, worktree add) has
\* been issued.
C28_InvalidRequestRejectedBeforeMutation ==
    (prov.state = "done" /\ InvalidRequest) =>
        /\ ~prov.result.ok
        /\ prov.result.msg \in ValidationMessages
        /\ \A i \in 1..Len(prov.result.cmds) :
              prov.result.cmds[i].cmd \notin MutatingCmds

\* C29: checkout_pr_to_worktree refuses a pull request that is checked out
\* without issuing a command; for one that is not cloned it tries the HTTPS
\* clone only after the SSH clone failed and issues no worktree command
\* unless a clone succeeded or the repository directory existed; for one
\* that is available the fetch precedes the tracking worktree add, and the
\* plain worktree add is tried only after the tracking form failed.
C29_CheckoutCommandOrder ==
    (prov.op = "checkout" /\ prov.state = "done") =>
        LET c == prov.result.cmds
            pr == prov.req.pr
        IN  /\ pr.local_status = "Checked out" =>
                  /\ c = << >>
                  /\ ~prov.result.ok
                  /\ prov.result.msg = "Already checked out"
            /\ pr.local_status = "Not cloned" =>
                  /\ \A i \in 1..Len(c) :
                        c[i].cmd = "clone https" =>
                            i > 1 /\ c[i - 1].cmd = "clone ssh" /\ ~c[i - 1].ok
                  /\ \A i \in 1..Len(c) :
                        c[i].cmd \in {"worktree add --track -b", "worktree add"}
                            => \/ \E j \in 1..(i - 1) :
                                     /\ c[j].cmd \in {"clone ssh", "clone https"}
                                     /\ c[j].ok
                               \/ sApp \in prov.env.paths
            /\ pr.local_status = "Available" =>
                  /\ \A i \in 1..Len(c) :
                        c[i].cmd = "worktree add --track -b" =>
                            \E j \in 1..(i - 1) : c[j].cmd = "fetch --all"
                  /\ \A i \in 1..Len(c) :
                        c[i].cmd = "worktree add" =>
                            /\ i > 1
                            /\ c[i - 1].cmd = "worktree add --track -b"
                            /\ ~c[i - 1].ok

\* a pull request that was not cloned: the SSH clone failed, the HTTPS clone
\* succeeded and the worktree was created by the plain form
C29_Witness ==
    /\ prov.op = "checkout" /\ prov.state = "done"
    /\ prov.req.pr.local_status = "Not cloned"
    /\ prov.result.ok
    /\ \E i \in 1..Len(prov.result.cmds) :
          prov.result.cmds[i].cmd = "clone https"
    /\ \E i \in 1..Len(prov.result.cmds) :
          prov.result.cmds[i].cmd = "worktree add"

\* the three-digit leading numbers of the names in S
NumbersIn(S) == {LeadingNumber(n) : n \in S}

\* C30: get_next_feature_number returns one more than the highest
\* three-digit leading number over all local and remote branch names of the
\* repository and all directories under a sibling's specs directory, and 1
\* when there is none; with branches 041-x and 042-oauth-login and a spec
\* folder 043-y it returns 44.
C30_NextFeatureNumberOnePastHighest ==
    (/\ prov.op = "speckit" /\ prov.state = "done"
     /\ Len(prov.result.cmds) > 0
     /\ prov.result.cmds[1].ok) =>
        LET names == LocalBranches(prov.env) \cup RemoteBranches(prov.env)
        IN  /\ prov.result.feature_num
                  = Highest(NumbersIn(names \cup prov.env.specs)) + 1
            /\ (names = {sMain, s041x, s042oauth} /\ prov.env.specs = {s043y})
                  => prov.result.feature_num = 44

\* the words of a description, lower-cased, that count as meaningful
MeaningfulWords(text) ==
    LET words == WordsOf(Lower(Strip(text)))
    IN  SelectSeq(words, LAMBDA w : w \notin stop_words /\ Len(w) >= 3)

\* the words of a description of at least two letters
TwoLetterWords(text) ==
    SelectSeq(WordsOf(Lower(Strip(text))), LAMBDA w : Len(w) >= 2)

\* the suffix of the branch a finished create_speckit_worktree computed
SpeckitSuffix ==
    SubSeq(prov.result.branch_name,
           Len(Pad3(prov.result.feature_num)) + 2,
           Len(prov.result.branch_name))

\* the general rule of the generated suffix: the hyphen-join of the first
\* at most four meaningful words, else of the first three words of two
\* letters or more, else "feature"; never empty
SuffixFollowsRule ==
    (prov.op = "speckit" /\ prov.state = "done"
       /\ Len(prov.result.branch_name) > 0) =>
        LET m == MeaningfulWords(prov.req.text)
            t == TwoLetterWords(prov.req.text)
        IN  /\ (Len(m) > 0 =>
                  SpeckitSuffix = Join(SubSeq(m, 1, IF Len(m) < 4 THEN Len(m) ELSE 4), <<"-">>))
            /\ (Len(m) = 0 /\ Len(t) > 0 =>
                  SpeckitSuffix = Join(SubSeq(t, 1, IF Len(t) < 3 THEN Len(t) ELSE 3), <<"-">>))
            /\ (Len(m) = 0 /\ Len(t) = 0 => SpeckitSuffix = sFeature)
            /\ Len(SpeckitSuffix) > 0

\* C31: for the description "I want to add user authentication now" the
\* generated suffix is "user-authentication"; in general the suffix is the
\* hyphen-join of the first at most four meaningful words (lower-cased,
\* alphabetic, no stop word, three letters or more), else of the first
\* three words of two letters or more, else "feature", and is never empty.
C31_BranchNameFromDescription ==
    /\ SuffixFollowsRule
    /\ (prov.op = "speckit" /\ prov.state = "done"
          /\ Len(prov.result.branch_name) > 0 /\ prov.req.text = sAuthNow)
            => SpeckitSuffix = sUserAuthentication

\* create_branch_worktree has succeeded, and the directory it created
Created ==
    prov.op = "create_branch" /\ prov.state = "done" /\ prov.result.ok

NewDir ==
    ProvRepo.name \o <<"-">> \o sanitize_branch_for_path(prov.result.branch_name)

\* r is the record the round trip expects for the new directory
RoundTripRecord(r) ==
    /\ r.name = NewDir
    /\ r.type_label = sWorktree
    /\ r.branch = Strip(prov.req.text)
    /\ ~can_create_worktree(r)
    /\ why_not_create_worktree(r) = <<"already a worktree">>

C33_ConfirmedBatchLeadsToShownRescan ==
    /\ [][(screen = "confirm" /\ batches' = batches + 1)
            => (worker' = "running" /\ awaiting')]_vars
    /\ (awaiting ~> (~awaiting /\ ~is_loading))

\* C34: a rebase status "Behind <trunk> (-n)" has n >= 1, "Rebased" is
\* reported only when the merge-base of HEAD and the remote trunk is the
\* remote trunk's tip, and so no repository with nothing to catch up on the
\* trunk becomes eligible for rebase through its rebase status, also when
\* the merge-base or count query fails.
C34_BehindTrunkMeansCommitsToCatchUp ==
    \A r \in Displayed :
        /\ (\A n \in 0..(MaxCount + 1) :
              r.rebase_status = FmtBehindTrunk(r.main_branch, n) => n >= 1)
        /\ (r.rebase_status = sRebased => Scanned(r).behindTrunk = 0)
        /\ (can_rebase(r) /\ ~IsBehindForm(r.sync_status)
              => Scanned(r).behindTrunk > 0)

\* C35: every RepositoryState has main_branch "main" or "dev", so rebase
\* rejects as "on main branch" exactly the branches main, master and dev
\* that force-push protects, and can_force_push is never true while the
\* branch equals main_branch.
C35_TrunkIsMainOrDev ==
    \A r \in Displayed :
        /\ r.main_branch \in {sMain, sDev}
        /\ (why_not_rebase(r) = <<"on main branch">>
              <=> r.branch \in {sMain, sMaster, sDev})
        /\ (r.remote_exists /\ r.branch \in {sMain, sMaster, sDev}
              => why_not_force_push(r) = <<"protected branch">>)
        /\ ~(can_force_push(r) /\ r.branch = r.main_branch)

\* a monorepo checkout on main with commits to push: its trunk is dev, and
\* main is protected all the same
C35_Witness ==
    \E r \in Displayed :
        /\ r.main_branch = sDev
        /\ r.branch = sMain
        /\ r.remote_exists
        /\ IsAheadForm(r.sync_status)
        /\ ~can_force_push(r)
        /\ why_not_rebase(r) = <<"on main branch">>

\* C36: on every RepositoryState, can_pull and can_force_push are never
\* both true; can_create_remote is never true together with can_pull,
\* can_force_push, can_reset_to_remote or can_delete_local; can_stash
\* equals can_discard; and can_delete_local implies that can_pull,
\* can_force_push, can_stash and can_discard are all false.
C36_EligibilityExclusions ==
    \A r \in Displayed :
        /\ ~(can_pull(r) /\ can_force_push(r))
        /\ (can_create_remote(r) =>
              /\ ~can_pull(r)
              /\ ~can_force_push(r)
              /\ ~can_reset_to_remote(r)
              /\ ~can_delete_local(r))
        /\ (can_stash(r) <=> can_discard(r))
        /\ (can_delete_local(r) =>
              /\ ~can_pull(r)
              /\ ~can_force_push(r)
              /\ ~can_stash(r)
              /\ ~can_discard(r))

\* a scan result on a feature branch that can be deleted locally and reset
\* to its remote, and none of pulled, force-pushed, stashed or discarded
C36_Witness ==
    \E r \in Displayed :
        /\ r.branch = sFeat
        /\ can_delete_local(r)
        /\ can_reset_to_remote(r)
        /\ ~can_create_remote(r)
        /\ ~can_stash(r)

\* the names of the repositories of the last scan
AllRepoNames == {all_repos[i].name : i \in 1..Len(all_repos)}

\* C37: after any sequence of scans, selections, filter changes and batch
\* actions every name in the selected set is the name of a repository in
\* the current all_repos list: no selection survives the disappearance of
\* its repository.
C37_SelectedAreScannedRepos == selected \subseteq AllRepoNames

\* the names of the repositories on display (those that pass the filter)
DisplayedNames == {repos[i].name : i \in 1..Len(repos)}

\* C38: when action_select_all is invoked on the repos tab and at least one
\* displayed repository is not selected, afterwards every displayed
\* repository is selected; only when all displayed repositories are already
\* selected does it deselect them, whatever the prior selection.
C38_SelectAllSelectsDisplayed ==
    [][SelectAll =>
         IF DisplayedNames \subseteq selected
         THEN selected' \cap DisplayedNames = {}
         ELSE DisplayedNames \subseteq selected']_vars

\* the number get_next_feature_number returns over env, whether or not
\* git branch -a answers
NextNumbers(env) == {get_next_feature_number(env, ok) : ok \in BOOLEAN}

\* C39: feature numbers are never reused: after create_speckit_worktree
\* succeeds with number n every later get_next_feature_number over the same
\* scan directory returns a value strictly greater than n, and the branch
\* it names starts with exactly three digits followed by a hyphen, for
\* every n reachable by repeated creation, the step past 999 included.
C39_FeatureNumbersNeverReused ==
    /\ [](prov.op = "speckit" /\ prov.result.ok
            => /\ \A m \in NextNumbers(prov.env) : m > prov.result.feature_num
               /\ LeadingNumber(prov.result.branch_name) = prov.result.feature_num)
    /\ [][\A ok \in BOOLEAN :
             get_next_feature_number(prov'.env, ok)
                >= get_next_feature_number(prov.env, ok)]_vars

====
